---- MODULE Spec2Model ----
(***************************************************************************)
(* A model of the search command layer of src/server/search/               *)
(* search_family.cc: the argument parsers, the index registry kept on      *)
(* every shard by FT.CREATE / FT.ALTER / FT.DROPINDEX / FT.INFO, and the   *)
(* cross-shard merge done by FT.SEARCH (SearchReply).                      *)
(***************************************************************************)
EXTENDS Integers, Sequences, FiniteSets, TLC

(***************************************************************************)
(* Bounds of the model.                                                    *)
(***************************************************************************)
\* number of shards of the shard set (shard ids are 0..NumShards-1)
NumShards == 2
\* number of client connections issuing commands
NumClients == 2
\* longest argument vector given to ParseSearchParams
MaxArgs == 4
\* most documents all shards together return to one FT.SEARCH
MaxDocs == 3

Shards == 0 .. (NumShards - 1)
Clients == 1 .. NumClients

(***************************************************************************)
(* Optional values: std::optional<T> is the empty sequence (nullopt) or a  *)
(* one-element sequence holding the value.                                 *)
(***************************************************************************)
Nullopt == << >>
Some(v) == << v >>
HasValue(o) == Len(o) > 0
ValueOf(o) == o[1]

Min(a, b) == IF a < b THEN a ELSE b

(***************************************************************************)
(* Tokens.  Arguments are strings; the tables below give the conversions   *)
(* the parser applies to them.                                             *)
(***************************************************************************)
\* absl::EqualsIgnoreCase compares the upper-cased argument with the tag
UpperPairs ==
  { <<"load", "LOAD">>, <<"return", "RETURN">>, <<"nocontent", "NOCONTENT">>,
    <<"schema", "SCHEMA">>, <<"as", "AS">>, <<"text", "TEXT">>, <<"desc", "DESC">>,
    <<"on", "ON">> }
ToUpper(t) ==
  IF \E pr \in UpperPairs : pr[1] = t
    THEN (CHOOSE pr \in UpperPairs : pr[1] = t)[2]
    ELSE t
EqualsIgnoreCase(arg, tag) == ToUpper(arg) = tag

\* the decimal numerals a size_t argument is converted from
Numerals == << "0", "1", "2", "3", "4", "5", "6" >>
IsNumeral(t) == \E i \in 1 .. Len(Numerals) : Numerals[i] = t
NumeralValue(t) == (CHOOSE i \in 1 .. Len(Numerals) : Numerals[i] = t) - 1

\* absl::StartsWith(field, "@") and field.remove_prefix(1)
AtPairs == { <<"@a", "a">>, <<"@b", "b">>, <<"@s", "s">>, <<"@k", "k">>, <<"@n", "n">> }
StartsWithAt(t) == \E pr \in AtPairs : pr[1] = t
RemoveAt(t) == (CHOOSE pr \in AtPairs : pr[1] = t)[2]

(***************************************************************************)
(* CmdArgParser (facade/cmd_arg_parser.h): a cursor over the argument      *)
(* vector and the first error reported.  cur is the 0-based index of the   *)
(* next argument, as cur_i_ in the code.                                   *)
(***************************************************************************)
NoError == ""
CmdArgParser(args) == [args |-> args, cur |-> 0, err |-> NoError]

Report(p, type) == IF p.err = NoError THEN [p EXCEPT !.err = type] ELSE p
HasNext(p) == p.cur < Len(p.args) /\ p.err = NoError
HasError(p) == p.err # NoError
SafeSV(p, i) == IF i < Len(p.args) THEN p.args[i + 1] ELSE ""
Peek(p) == SafeSV(p, p.cur)

\* Next<string_view>()
Next(p) ==
  IF p.cur >= Len(p.args)
    THEN [p |-> Report(p, "OUT_OF_BOUNDS"), v |-> ""]
    ELSE [p |-> [p EXCEPT !.cur = p.cur + 1], v |-> p.args[p.cur + 1]]

\* Next<size_t>()
NextInt(p) ==
  IF p.cur >= Len(p.args)
    THEN [p |-> Report(p, "OUT_OF_BOUNDS"), v |-> 0]
    ELSE IF IsNumeral(p.args[p.cur + 1])
      THEN [p |-> [p EXCEPT !.cur = p.cur + 1], v |-> NumeralValue(p.args[p.cur + 1])]
      ELSE [p |-> [Report(p, "INVALID_INT") EXCEPT !.cur = p.cur + 1], v |-> 0]

\* Next<string_view, string_view>()
NextPair(p) ==
  IF p.cur + 1 >= Len(p.args)
    THEN [p |-> Report(p, "OUT_OF_BOUNDS"), v |-> <<"", "">>]
    ELSE [p |-> [p EXCEPT !.cur = p.cur + 2],
          v |-> <<p.args[p.cur + 1], p.args[p.cur + 2]>>]

\* Next<size_t, size_t>()
NextIntPair(p) ==
  IF p.cur + 1 >= Len(p.args)
    THEN [p |-> Report(p, "OUT_OF_BOUNDS"), v |-> <<0, 0>>]
    ELSE LET a == p.args[p.cur + 1]
             b == p.args[p.cur + 2]
             q == [p EXCEPT !.cur = p.cur + 2]
         IN IF IsNumeral(a) /\ IsNumeral(b)
              THEN [p |-> q, v |-> <<NumeralValue(a), NumeralValue(b)>>]
              ELSE [p |-> Report(q, "INVALID_INT"),
                    v |-> <<IF IsNumeral(a) THEN NumeralValue(a) ELSE 0,
                            IF IsNumeral(b) THEN NumeralValue(b) ELSE 0>>]

\* Check(tag): consumes the next argument when it equals the tag
Check(p, tag) ==
  IF p.cur < Len(p.args) /\ EqualsIgnoreCase(p.args[p.cur + 1], tag)
    THEN [p |-> [p EXCEPT !.cur = p.cur + 1], v |-> TRUE]
    ELSE [p |-> p, v |-> FALSE]

\* Check(tag, &value): consumes the tag and the argument after it; val is
\* the value read, meaningful when v is TRUE
CheckValue(p, tag) ==
  IF p.cur + 1 < Len(p.args) /\ EqualsIgnoreCase(p.args[p.cur + 1], tag)
    THEN [p |-> [p EXCEPT !.cur = p.cur + 2], v |-> TRUE, val |-> p.args[p.cur + 2]]
    ELSE [p |-> p, v |-> FALSE, val |-> ""]

\* Skip(n)
Skip(p, n) ==
  IF p.cur + n > Len(p.args) THEN Report(p, "OUT_OF_BOUNDS") ELSE [p EXCEPT !.cur = p.cur + n]

\* ExpectTag(tag)
ExpectTag(p, tag) ==
  IF p.cur >= Len(p.args)
    THEN Report(p, "OUT_OF_BOUNDS")
    ELSE IF EqualsIgnoreCase(p.args[p.cur + 1], tag)
      THEN [p EXCEPT !.cur = p.cur + 1]
      ELSE [Report(p, "INVALID_NEXT") EXCEPT !.cur = p.cur + 1]

\* MapNext(tag, value, ...): the tag matched, consumed; "" and an error
\* when there is no argument or it matches no tag
MapNext(p, tags) ==
  IF p.cur >= Len(p.args)
    THEN [p |-> Report(p, "OUT_OF_BOUNDS"), v |-> ""]
    ELSE IF ToUpper(p.args[p.cur + 1]) \in tags
      THEN [p |-> [p EXCEPT !.cur = p.cur + 1], v |-> ToUpper(p.args[p.cur + 1])]
      ELSE [p |-> Report(p, "INVALID_CASES"), v |-> ""]

\* TryMapNext(tag, value, ...): the tag matched, consumed, or nullopt
TryMapNext(p, tags) ==
  IF p.cur < Len(p.args) /\ ToUpper(p.args[p.cur + 1]) \in tags
    THEN [p |-> [p EXCEPT !.cur = p.cur + 1], v |-> Some(ToUpper(p.args[p.cur + 1]))]
    ELSE [p |-> p, v |-> Nullopt]

\* Check(tag, &size_t)
CheckInt(p, tag) ==
  IF p.cur + 1 < Len(p.args) /\ EqualsIgnoreCase(p.args[p.cur + 1], tag)
    THEN IF IsNumeral(p.args[p.cur + 2])
           THEN [p |-> [p EXCEPT !.cur = p.cur + 2], v |-> TRUE,
                 val |-> NumeralValue(p.args[p.cur + 2])]
           ELSE [p |-> [Report(p, "INVALID_INT") EXCEPT !.cur = p.cur + 2], v |-> TRUE,
                 val |-> 0]
    ELSE [p |-> p, v |-> FALSE, val |-> 0]

\* NextOrDefault()
NextOrDefault(p) == IF HasNext(p) THEN Next(p) ELSE [p |-> p, v |-> ""]

\* ParseResult<T>: a value, or the ErrorReply of CreateSyntaxError; p is the
\* parser as the call leaves it.  An error message is the sequence of the
\* strings it is concatenated from
Parsed(p, v) == [ok |-> TRUE, p |-> p, val |-> v, error |-> << >>]
CreateSyntaxError(p, msg) == [ok |-> FALSE, p |-> p, val |-> << >>, error |-> msg]

(***************************************************************************)
(* FT.CREATE argument parsing.  A DocIndex is [type, prefix, stopwords,    *)
(* schema]; schema.fields maps a field identifier to its SchemaField       *)
(* [type, flags, short_name, special_params], schema.field_names maps an   *)
(* alias to a field identifier.  Maps are functions on their key sets.     *)
(***************************************************************************)
EmptyMap == [k \in { } |-> 0]
\* map[k] = v
MapSet(map, k, v) == [x \in (DOMAIN map) \cup { k } |-> IF x = k THEN v ELSE map[x]]
\* map.insert(other.begin(), other.end()): keys already present keep their value
MapInsert(map, other) ==
  [x \in (DOMAIN map) \cup (DOMAIN other) |-> IF x \in DOMAIN map THEN map[x] ELSE other[x]]

\* the stop-words of a default-constructed DocIndex (core/search)
DefaultStopwords == { "a", "is", "the" }
DefaultDocIndex ==
  [type |-> "HASH", prefix |-> "", stopwords |-> DefaultStopwords,
   schema |-> [fields |-> EmptyMap, field_names |-> EmptyMap]]

\* IsValidJsonPath: the paths MakeJsonPathExpr accepts
ValidJsonPaths == { "$.a", "$.b", "$.n" }
IsValidJsonPath(path) == path \in ValidJsonPaths

\* the arguments of size 1, for separator.size() != 1
SingleCharacters == { ",", ";", "1", "2", "3", "4", "5", "6", "0", "a", "b", "n", "s", "k" }

DefaultVectorParams ==
  [use_hnsw |-> FALSE, dim |-> 0, sim |-> "L2", capacity |-> 1000, hnsw_m |-> 16,
   hnsw_ef_construction |-> 200]

RECURSIVE VectorParamsLoop(_, _, _, _)
VectorParamsLoop(p, i, num_args, params) ==
  IF ~(i * 2 < num_args) THEN [p |-> p, v |-> params, iterations |-> i]
  ELSE IF CheckInt(p, "DIM").v
    THEN VectorParamsLoop(CheckInt(p, "DIM").p, i + 1, num_args,
                          [params EXCEPT !.dim = CheckInt(p, "DIM").val])
  ELSE IF Check(p, "DISTANCE_METRIC").v
    THEN LET m == MapNext(Check(p, "DISTANCE_METRIC").p, { "L2", "IP", "COSINE" })
         IN VectorParamsLoop(m.p, i + 1, num_args,
                             [params EXCEPT !.sim = IF m.v = "" THEN "L2" ELSE m.v])
  ELSE IF CheckInt(p, "INITIAL_CAP").v
    THEN VectorParamsLoop(CheckInt(p, "INITIAL_CAP").p, i + 1, num_args,
                          [params EXCEPT !.capacity = CheckInt(p, "INITIAL_CAP").val])
  ELSE IF CheckInt(p, "M").v
    THEN VectorParamsLoop(CheckInt(p, "M").p, i + 1, num_args,
                          [params EXCEPT !.hnsw_m = CheckInt(p, "M").val])
  ELSE IF CheckInt(p, "EF_CONSTRUCTION").v
    THEN VectorParamsLoop(CheckInt(p, "EF_CONSTRUCTION").p, i + 1, num_args,
                          [params EXCEPT !.hnsw_ef_construction =
                                            CheckInt(p, "EF_CONSTRUCTION").val])
  ELSE IF Check(p, "EF_RUNTIME").v
    THEN VectorParamsLoop(NextInt(Check(p, "EF_RUNTIME").p).p, i + 1, num_args, params)
  ELSE IF Check(p, "EPSILON").v
    THEN VectorParamsLoop(Next(Check(p, "EPSILON").p).p, i + 1, num_args, params)
  ELSE VectorParamsLoop(Skip(p, 2), i + 1, num_args, params)

ParseVectorParams(p) ==
  LET algo == MapNext(p, { "HNSW", "FLAT" })
      n == NextInt(algo.p)
  IN VectorParamsLoop(n.p, 0, n.v, [DefaultVectorParams EXCEPT !.use_hnsw = (algo.v = "HNSW")])

DefaultTagParams == [separator |-> ",", case_sensitive |-> FALSE, with_suffixtrie |-> FALSE]

RECURSIVE TagParamsLoop(_, _)
TagParamsLoop(p, params) ==
  IF ~HasNext(p) THEN Parsed(p, params)
  ELSE IF Check(p, "SEPARATOR").v
    THEN LET sep == NextOrDefault(Check(p, "SEPARATOR").p)
         IN IF sep.v \notin SingleCharacters
              THEN CreateSyntaxError(sep.p, << "Tag separator must be a single character. Got ", sep.v >>)
              ELSE TagParamsLoop(sep.p, [params EXCEPT !.separator = sep.v])
  ELSE IF Check(p, "CASESENSITIVE").v
    THEN TagParamsLoop(Check(p, "CASESENSITIVE").p, [params EXCEPT !.case_sensitive = TRUE])
  ELSE IF Check(p, "WITHSUFFIXTRIE").v
    THEN TagParamsLoop(Check(p, "WITHSUFFIXTRIE").p, [params EXCEPT !.with_suffixtrie = TRUE])
  ELSE Parsed(p, params)

ParseTagParams(p) == TagParamsLoop(p, DefaultTagParams)

ParseTextParams(p) ==
  Parsed(Check(p, "WITHSUFFIXTRIE").p, [with_suffixtrie |-> Check(p, "WITHSUFFIXTRIE").v])

ParseNumericParams(p) ==
  IF Check(p, "BLOCKSIZE").v
    THEN LET n == NextInt(Check(p, "BLOCKSIZE").p)
         IN [p |-> n.p, v |-> [block_size |-> n.v]]
    ELSE [p |-> p, v |-> [block_size |-> 0]]

\* ParsedSchemaField: the pair (field type, params)
ParseTag(p) ==
  LET t == ParseTagParams(p)
  IN IF ~t.ok THEN t ELSE Parsed(t.p, [type |-> "TAG", params |-> t.val])

ParseText(p) ==
  LET t == ParseTextParams(p)
  IN IF ~t.ok THEN t ELSE Parsed(t.p, [type |-> "TEXT", params |-> t.val])

ParseNumeric(p) ==
  LET n == ParseNumericParams(p)
  IN Parsed(n.p, [type |-> "NUMERIC", params |-> n.v])

ParseVector(p) ==
  LET v == ParseVectorParams(p)
  IN IF HasError(v.p)
       THEN CreateSyntaxError(v.p, << "Parse error of vector parameters" >>)
       ELSE IF v.v.dim = 0
         THEN CreateSyntaxError(v.p, << "Knn vector dimension cannot be zero" >>)
         ELSE Parsed(v.p, [type |-> "VECTOR", params |-> v.v])

ParseFieldType(p, type) ==
  IF type = "TAG" THEN ParseTag(p)
  ELSE IF type = "TEXT" THEN ParseText(p)
  ELSE IF type = "NUMERIC" THEN ParseNumeric(p)
  ELSE ParseVector(p)

\* an option parser's result: the index as it leaves it, and whether
\* ParseCreateParams goes on (the bool of ParseResult<bool>)
Option(p, index, more) ==
  [ok |-> TRUE, p |-> p, val |-> index, error |-> << >>, more |-> more]
OptionError(p, msg) == [ok |-> FALSE, p |-> p, val |-> << >>, error |-> msg, more |-> FALSE]

ParseOnOption(p, index) ==
  LET t == MapNext(p, { "HASH", "JSON" })
  IN Option(t.p, [index EXCEPT !.type = IF t.v = "" THEN "HASH" ELSE t.v], TRUE)

ParsePrefix(p, index) ==
  IF ~Check(p, "1").v
    THEN OptionError(p, << "Multiple prefixes are not supported" >>)
    ELSE LET n == Next(Check(p, "1").p)
         IN Option(n.p, [index EXCEPT !.prefix = n.v], TRUE)

RECURSIVE StopwordsLoop(_, _, _)
StopwordsLoop(p, num, words) ==
  IF num > 0
    THEN LET n == Next(p)
             rest == StopwordsLoop(n.p, num - 1, words \cup { n.v })
         IN [rest EXCEPT !.iterations = @ + 1]
    ELSE [p |-> p, v |-> words, iterations |-> 0]

ParseStopwords(p, index) ==
  LET n == NextInt(p)
      w == StopwordsLoop(n.p, n.v, { })
  IN Option(w.p, [index EXCEPT !.stopwords = w.v], TRUE)

kIgnoredOptions == { "UNF", "NOSTEM", "INDEXMISSING", "INDEXEMPTY" }
\* an array of 3 with 2 initializers: the third element is the empty string
kIgnoredOptionsWithArg == { "WEIGHT", "PHONETIC", "" }

\* the flags loop of ParseSchema
RECURSIVE FlagsLoop(_, _)
FlagsLoop(p, flags) ==
  IF ~HasNext(p) THEN [p |-> p, v |-> flags]
  ELSE LET flag == TryMapNext(p, { "NOINDEX", "SORTABLE" })
       IN IF HasValue(flag.v)
            THEN FlagsLoop(flag.p, flags \cup { ValueOf(flag.v) })
            ELSE IF Peek(p) \in kIgnoredOptions
              THEN FlagsLoop(Skip(p, 1), flags)
              ELSE IF Peek(p) \in kIgnoredOptionsWithArg
                THEN FlagsLoop(Skip(p, 2), flags)
                ELSE [p |-> p, v |-> flags]

RECURSIVE SchemaLoop(_, _)
SchemaLoop(p, index) ==
  IF ~HasNext(p) THEN Option(p, index, FALSE)
  ELSE
    LET field == Next(p)
        as == CheckValue(field.p, "AS")
        field_alias == IF as.v THEN as.val ELSE field.v
        params_parser == TryMapNext(as.p, { "TAG", "TEXT", "NUMERIC", "VECTOR" })
        parsed_params == ParseFieldType(params_parser.p, ValueOf(params_parser.v))
        flags == FlagsLoop(parsed_params.p, { })
    IN IF index.type = "JSON" /\ ~IsValidJsonPath(field.v)
         THEN OptionError(field.p, << "Bad json path: ", field.v >>)
       ELSE IF field_alias \in DOMAIN index.schema.field_names
         THEN OptionError(as.p, << "Duplicate field in schema - ", field_alias >>)
       ELSE IF ~HasValue(params_parser.v)
         THEN OptionError(Next(as.p).p, << "Field type ", Next(as.p).v, " is not supported" >>)
       ELSE IF ~parsed_params.ok
         THEN OptionError(parsed_params.p, parsed_params.error)
       ELSE SchemaLoop(flags.p,
              [index EXCEPT
                 !.schema.fields =
                    MapSet(@, field.v,
                           [type |-> parsed_params.val.type, flags |-> flags.v,
                            short_name |-> field_alias,
                            special_params |-> parsed_params.val.params]),
                 !.schema.field_names = MapSet(@, field_alias, field.v)])

ParseSchema(p, index) ==
  IF ~HasNext(p)
    THEN OptionError(p, << "Fields arguments are missing" >>)
    ELSE SchemaLoop(p, index)

ParseCreateOption(option, p, index) ==
  IF option = "ON" THEN ParseOnOption(p, index)
  ELSE IF option = "PREFIX" THEN ParsePrefix(p, index)
  ELSE IF option = "STOPWORDS" THEN ParseStopwords(p, index)
  ELSE ParseSchema(p, index)

RECURSIVE CreateParamsLoop(_, _)
CreateParamsLoop(p, index) ==
  IF ~HasNext(p) THEN Parsed(p, index)
  ELSE LET option_parser == TryMapNext(p, { "ON", "PREFIX", "STOPWORDS", "SCHEMA" })
           parse_result == ParseCreateOption(ValueOf(option_parser.v), option_parser.p, index)
       IN IF ~HasValue(option_parser.v)
            THEN CreateParamsLoop(Skip(p, 1), index)
            ELSE IF ~parse_result.ok
              THEN CreateSyntaxError(parse_result.p, parse_result.error)
              ELSE IF ~parse_result.more
                THEN Parsed(parse_result.p, parse_result.val)
                ELSE CreateParamsLoop(parse_result.p, parse_result.val)

ParseCreateParams(p) == CreateParamsLoop(p, DefaultDocIndex)

(***************************************************************************)
(* FT.SEARCH argument parsing.                                             *)
(***************************************************************************)
FieldReference(name, alias) == [name |-> name, alias |-> alias]

\* SearchParams as default-constructed (server/search/doc_index.h)
DefaultSearchParams ==
  [limit_offset |-> 0, limit_total |-> 10,
   load_fields |-> Nullopt, return_fields |-> Nullopt,
   query_params |-> << >>, sort_option |-> Nullopt]

ParseField(p) ==
  LET n == Next(p)
  IN [p |-> n.p, v |-> IF StartsWithAt(n.v) THEN RemoveAt(n.v) ELSE n.v]

RECURSIVE LoadOrReturnLoop(_, _, _, _)
LoadOrReturnLoop(p, is_load, num_fields, fields) ==
  IF HasNext(p) /\ num_fields # 0
    THEN LET f == IF is_load THEN ParseField(p) ELSE Next(p)
             a == CheckValue(f.p, "AS")
             rest == LoadOrReturnLoop(a.p, is_load, num_fields - 1,
                                      Append(fields, FieldReference(f.v, a.val)))
         IN [rest EXCEPT !.iterations = @ + 1]
    ELSE [p |-> p, v |-> fields, iterations |-> 0]

ParseLoadOrReturnFields(p, is_load) ==
  LET n == NextInt(p)
  IN LoadOrReturnLoop(n.p, is_load, n.v, << >>)

\* QueryParams is a map from name to value: a sequence of <<name, value>>
\* with distinct names; params[k] = v overwrites or appends
SetParam(params, k, v) ==
  IF \E i \in 1 .. Len(params) : params[i][1] = k
    THEN [i \in 1 .. Len(params) |-> IF params[i][1] = k THEN <<k, v>> ELSE params[i]]
    ELSE Append(params, <<k, v>>)

RECURSIVE QueryParamsLoop(_, _, _)
QueryParamsLoop(p, num_args, params) ==
  IF HasNext(p) /\ Len(params) * 2 < num_args
    THEN LET kv == NextPair(p)
             rest == QueryParamsLoop(kv.p, num_args, SetParam(params, kv.v[1], kv.v[2]))
         IN [rest EXCEPT !.iterations = @ + 1]
    ELSE [p |-> p, v |-> params, iterations |-> 0]

ParseQueryParams(p) ==
  LET n == NextInt(p)
  IN QueryParamsLoop(n.p, n.v, << >>)

RECURSIVE SearchParamsLoop(_, _)
SearchParamsLoop(p, params) ==
  IF ~HasNext(p) THEN Parsed(p, params)
  ELSE IF Check(p, "LIMIT").v
    THEN LET o == NextInt(Check(p, "LIMIT").p)
             t == NextInt(o.p)
         IN SearchParamsLoop(t.p, [params EXCEPT !.limit_offset = o.v, !.limit_total = t.v])
  ELSE IF Check(p, "LOAD").v
    THEN IF HasValue(params.return_fields)
           THEN CreateSyntaxError(Check(p, "LOAD").p, << "LOAD cannot be applied after RETURN" >>)
           ELSE LET f == ParseLoadOrReturnFields(Check(p, "LOAD").p, TRUE)
                IN SearchParamsLoop(f.p, [params EXCEPT !.load_fields = Some(f.v)])
  ELSE IF Check(p, "RETURN").v
    THEN IF HasValue(params.load_fields)
           THEN CreateSyntaxError(Check(p, "RETURN").p, << "RETURN cannot be applied after LOAD" >>)
           ELSE IF ~HasValue(params.return_fields)
             THEN LET f == ParseLoadOrReturnFields(Check(p, "RETURN").p, FALSE)
                  IN SearchParamsLoop(f.p, [params EXCEPT !.return_fields = Some(f.v)])
             ELSE SearchParamsLoop(Check(p, "RETURN").p, params)
  ELSE IF Check(p, "NOCONTENT").v
    THEN SearchParamsLoop(Check(p, "NOCONTENT").p,
                          [params EXCEPT !.return_fields = Some(<< >>)])
  ELSE IF Check(p, "PARAMS").v
    THEN LET q == ParseQueryParams(Check(p, "PARAMS").p)
         IN SearchParamsLoop(q.p, [params EXCEPT !.query_params = q.v])
  ELSE IF Check(p, "SORTBY").v
    THEN LET f == ParseField(Check(p, "SORTBY").p)
             d == Check(f.p, "DESC")
         IN SearchParamsLoop(d.p,
              [params EXCEPT !.sort_option =
                 Some([field |-> FieldReference(f.v, ""),
                       order |-> IF d.v THEN "DESC" ELSE "ASC"])])
  ELSE SearchParamsLoop(Skip(p, 1), params)

ParseSearchParams_RejectUnknown(p) ==
  IF HasNext(p) /\ ToUpper(Peek(p)) \notin { "LIMIT", "LOAD", "RETURN", "NOCONTENT", "PARAMS",
                                             "SORTBY" }
    THEN CreateSyntaxError(p, << "Unknown clause: ", Peek(p) >>)
    ELSE SearchParamsLoop(p, DefaultSearchParams)
ParseSearchParams(p) == SearchParamsLoop(p, DefaultSearchParams)

\* CmdArgParser::ErrorInfo::MakeReply
MakeReply(err) == << "parser error: ", err >>

\* SendErrorIfOccurred: the error sent, or nullopt when none occurred
SendErrorIfOccurred(result) ==
  IF HasError(result.p) \/ ~result.ok
    THEN Some(IF ~result.ok THEN result.error ELSE MakeReply(result.p.err))
    ELSE Nullopt

(***************************************************************************)
(* FT.AGGREGATE argument parsing.  AggregateParams is [index, query,       *)
(* load_fields, params, steps]; a step is a record tagged by its kind.     *)
(***************************************************************************)
FLAGS_search_reject_legacy_field == TRUE

ParseFieldWithAtSign(p) ==
  IF StartsWithAt(Next(p).v)
    THEN [p |-> Next(p).p, v |-> Some(RemoveAt(Next(p).v))]
    ELSE IF FLAGS_search_reject_legacy_field
      THEN [p |-> Next(p).p, v |-> Nullopt]
      ELSE [p |-> Next(p).p, v |-> Some(Next(p).v)]

\* the optional ASC / DESC after a SORTBY field: [p, order, strings_num]
SortOrderOf_NotCounted(p, strings_num, order) ==
  IF strings_num > 0 /\ HasValue(order.v)
    THEN [p |-> order.p, order |-> ValueOf(order.v), strings_num |-> strings_num]
    ELSE [p |-> IF strings_num > 0 THEN order.p ELSE p, order |-> "ASC",
          strings_num |-> strings_num]
SortOrderOf(p, strings_num, order) ==
  IF strings_num > 0 /\ HasValue(order.v)
    THEN [p |-> order.p, order |-> ValueOf(order.v), strings_num |-> strings_num - 1]
    ELSE [p |-> IF strings_num > 0 THEN order.p ELSE p, order |-> "ASC",
          strings_num |-> strings_num]

\* what follows the loop over the SORTBY strings
SortParamsEnd(p, strings_num, fields) ==
  IF strings_num # 0
    THEN CreateSyntaxError(p, << "bad arguments for SORTBY: specified invalid number of strings" >>)
    ELSE IF Check(p, "MAX").v
      THEN Parsed(NextInt(Check(p, "MAX").p).p,
                  [fields |-> fields, max |-> Some(NextInt(Check(p, "MAX").p).v)])
      ELSE Parsed(p, [fields |-> fields, max |-> Nullopt])

RECURSIVE SortParamsLoop(_, _, _)
SortParamsField(p, strings_num, fields, parsed_field, o) ==
  SortParamsLoop(o.p, o.strings_num, Append(fields, << ValueOf(parsed_field.v), o.order >>))

SortParamsLoop(p, strings_num, fields) ==
  IF HasNext(p) /\ strings_num > 0
    THEN IF ~HasValue(ParseFieldWithAtSign(p).v)
           THEN CreateSyntaxError(ParseFieldWithAtSign(p).p,
                                  << "SORTBY field name '", Peek(p), "' must start with '@'" >>)
           ELSE SortParamsField(p, strings_num, fields, ParseFieldWithAtSign(p),
                                SortOrderOf(ParseFieldWithAtSign(p).p, strings_num - 1,
                                            TryMapNext(ParseFieldWithAtSign(p).p,
                                                       { "ASC", "DESC" })))
    ELSE SortParamsEnd(p, strings_num, fields)

ParseAggregatorSortParams(p) == SortParamsLoop(NextInt(p).p, NextInt(p).v, << >>)

\* GROUPBY: the loop over the properties
RECURSIVE GroupFieldsLoop(_, _, _)
GroupFieldsLoop(p, num_fields, fields) ==
  IF HasNext(p) /\ num_fields > 0
    THEN IF ~HasValue(ParseFieldWithAtSign(p).v)
           THEN CreateSyntaxError(ParseFieldWithAtSign(p).p,
                                  << "bad arguments: Field name should start with '@'" >>)
           ELSE GroupFieldsLoop(ParseFieldWithAtSign(p).p, num_fields - 1,
                                Append(fields, ValueOf(ParseFieldWithAtSign(p).v)))
    ELSE Parsed(p, fields)

ReducerFuncs == { "COUNT", "COUNT_DISTINCT", "SUM", "AVG", "MAX", "MIN" }

\* one REDUCE clause after its function name: nargs, the source field, AS and
\* the result field
ReducerResult(source, func) ==
  [p |-> Next(ExpectTag(source.p, "AS")).p,
   v |-> [source_field |-> source.v,
          result_field |-> Next(ExpectTag(source.p, "AS")).v,
          func |-> func]]

ReducerSource(nargs) == IF nargs.v > 0 THEN ParseField(nargs.p) ELSE [p |-> nargs.p, v |-> ""]

RECURSIVE ReducersLoop(_, _)
ReducersNext(reducer, reducers) == ReducersLoop(reducer.p, Append(reducers, reducer.v))

ReducersFunc(p, func_name, reducers) ==
  IF ~HasValue(func_name.v)
    THEN CreateSyntaxError(Next(p).p, << "reducer function ", Next(p).v, " not found" >>)
    ELSE ReducersNext(ReducerResult(ReducerSource(NextInt(func_name.p)), ValueOf(func_name.v)),
                      reducers)

ReducersLoop(p, reducers) ==
  IF Check(p, "REDUCE").v
    THEN ReducersFunc(Check(p, "REDUCE").p, TryMapNext(Check(p, "REDUCE").p, ReducerFuncs),
                      reducers)
    ELSE Parsed(p, reducers)

MakeGroupStep(fields, reducers) == [kind |-> "GROUP", fields |-> fields, reducers |-> reducers]
MakeSortStep(sort_params) == [kind |-> "SORT", fields |-> sort_params.fields, max |-> sort_params.max]
MakeLimitStep(offset, num) == [kind |-> "LIMIT", offset |-> offset, num |-> num]

DefaultAggregateParams(index, query) ==
  [index |-> index, query |-> query, load_fields |-> Nullopt, params |-> << >>, steps |-> << >>]

\* "LOAD options are at the beginning of the query"
RECURSIVE AggregatorLoadLoop(_, _)
AggregatorLoadFields(params, fields) ==
  AggregatorLoadLoop(fields.p,
                     [params EXCEPT !.load_fields =
                        IF HasValue(@) THEN Some(ValueOf(@) \o fields.v) ELSE Some(fields.v)])

AggregatorLoadLoop(p, params) ==
  IF HasNext(p) /\ Check(p, "LOAD").v
    THEN AggregatorLoadFields(params, ParseLoadOrReturnFields(Check(p, "LOAD").p, TRUE))
    ELSE [p |-> p, v |-> params]

RECURSIVE AggregatorStepsLoop(_, _)
AggregatorPush(p, params, step) ==
  AggregatorStepsLoop(p, [params EXCEPT !.steps = Append(@, step)])

AggregatorGroupReducers(params, fields, reducers) ==
  IF ~reducers.ok
    THEN reducers
    ELSE AggregatorPush(reducers.p, params, MakeGroupStep(fields.val, reducers.val))

AggregatorGroupBy(params, fields) ==
  IF ~fields.ok
    THEN fields
    ELSE AggregatorGroupReducers(params, fields, ReducersLoop(fields.p, << >>))

AggregatorSortBy(params, sort_params) ==
  IF ~sort_params.ok
    THEN sort_params
    ELSE AggregatorPush(sort_params.p, params, MakeSortStep(sort_params.val))

AggregatorLimit(params, limit) ==
  AggregatorPush(limit.p, params, MakeLimitStep(limit.v[1], limit.v[2]))

AggregatorQueryParams(params, query_params) ==
  AggregatorStepsLoop(query_params.p, [params EXCEPT !.params = query_params.v])

AggregatorStepsLoop(p, params) ==
  IF ~HasNext(p) THEN Parsed(p, params)
  ELSE IF Check(p, "GROUPBY").v
    THEN AggregatorGroupBy(params,
                           GroupFieldsLoop(NextInt(Check(p, "GROUPBY").p).p,
                                           NextInt(Check(p, "GROUPBY").p).v, << >>))
  ELSE IF Check(p, "SORTBY").v
    THEN AggregatorSortBy(params, ParseAggregatorSortParams(Check(p, "SORTBY").p))
  ELSE IF Check(p, "LIMIT").v
    THEN AggregatorLimit(params, NextIntPair(Check(p, "LIMIT").p))
  ELSE IF Check(p, "PARAMS").v
    THEN AggregatorQueryParams(params, ParseQueryParams(Check(p, "PARAMS").p))
  ELSE IF Check(p, "LOAD").v
    THEN CreateSyntaxError(Check(p, "LOAD").p,
                           << "LOAD cannot be applied after projectors or reducers" >>)
  ELSE CreateSyntaxError(p, << "Unknown clause: ", Peek(p) >>)

AggregatorAfterLoad(loaded) == AggregatorStepsLoop(loaded.p, loaded.v)

ParseAggregatorParams(p) ==
  AggregatorAfterLoad(
    AggregatorLoadLoop(NextPair(p).p, DefaultAggregateParams(NextPair(p).v[1], NextPair(p).v[2])))

(***************************************************************************)
(* The cross-shard merge of FT.SEARCH.                                     *)
(*                                                                         *)
(* SerializedSearchDoc: [key, values, knn_score, sort_score]; values is a  *)
(* map kept as a sequence of <<field, value>>.  SearchResult:              *)
(* [total_hits, docs, error].                                              *)
(***************************************************************************)
SerializedSearchDoc(key, knn_score, sort_score) ==
  [key |-> key, values |-> << >>, knn_score |-> knn_score, sort_score |-> sort_score]

SearchResult(total_hits, docs) == [total_hits |-> total_hits, docs |-> docs, error |-> Nullopt]
ErrorSearchResult(msg) == [total_hits |-> 0, docs |-> << >>, error |-> Some(msg)]

\* SearchParams::IdsOnly, ShouldReturnField and SortOption::IsSame
\* (server/search/doc_index.h)
OutputName(field) == IF field.alias = "" THEN field.name ELSE field.alias
IdsOnly(params) == HasValue(params.return_fields) /\ ValueOf(params.return_fields) = << >>
ShouldReturnField(params, alias) ==
  \/ ~HasValue(params.return_fields)
  \/ \E i \in 1 .. Len(ValueOf(params.return_fields)) :
        OutputName(ValueOf(params.return_fields)[i]) = alias
IsSame(sort_option, knn) == knn.score_field_alias = OutputName(sort_option.field)

\* the comparison cb of PartialSort
SortLess(order, field, l, r) ==
  IF order = "ASC" THEN l[field] < r[field] ELSE r[field] < l[field]

IndexPermutations(n) ==
  { f \in [1 .. n -> 1 .. n] : \A i, j \in 1 .. n : i # j => f[i] # f[j] }

\* std::partial_sort(begin, begin + min(limit, size), end, cb): every
\* arrangement it may leave, the first min(limit, size) places holding the
\* least elements in order, the other places in any order
PartialSort_Unsorted(docs, limit, order, field) == { docs }
PartialSort(docs, limit, order, field) ==
  LET n == Len(docs)
      m == Min(limit, n)
      Good(f) ==
        /\ \A i, j \in 1 .. m : i < j => ~SortLess(order, field, docs[f[j]], docs[f[i]])
        /\ \A i \in 1 .. m : \A j \in (m + 1) .. n :
              ~SortLess(order, field, docs[f[j]], docs[f[i]])
  IN { [i \in 1 .. n |-> docs[f[i]]] : f \in { g \in IndexPermutations(n) : Good(g) } }

\* the loop over results: total_hits summed, docs concatenated in shard order
RECURSIVE MergeFrom(_, _)
MergeFrom(results, s) ==
  IF s >= NumShards
    THEN [total_hits |-> 0, docs |-> << >>]
    ELSE LET rest == MergeFrom(results, s + 1)
         IN [total_hits |-> results[s].total_hits + rest.total_hits,
             docs |-> results[s].docs \o rest.docs]
MergeResults(results) == MergeFrom(results, 0)

\* "Reorder and cut KNN results": the values of total_hits and docs after it
KnnCut_ResizeFirst(total_hits, docs, knn) ==
  LET cut == SubSeq(docs, 1, Min(Len(docs), knn.limit))
  IN { [total_hits |-> Min(total_hits, knn.limit), docs |-> d] :
         d \in PartialSort(cut, Min(total_hits, knn.limit), "ASC", "knn_score") }
KnnCut(total_hits, docs, knn) ==
  LET hits == Min(total_hits, knn.limit)
  IN { [total_hits |-> hits, docs |-> SubSeq(d, 1, Min(Len(d), knn.limit))] :
         d \in PartialSort(docs, hits, "ASC", "knn_score") }

\* "Apply LIMIT": offset, limit and end
ApplyLimit_OffsetUnclamped(params, size) ==
  [offset |-> params.limit_offset,
   limit |-> Min(size, params.limit_total),
   end |-> params.limit_offset + Min(size, params.limit_total)]
ApplyLimit(params, size) ==
  LET offset == Min(params.limit_offset, size)
      limit == Min(size - offset, params.limit_total)
  IN [offset |-> offset, limit |-> limit, end |-> offset + limit]

\* "Apply SORTBY if its different from the KNN sort"
ApplySortBy_LimitOnly(params, ignore_sort, docs, lim) ==
  IF HasValue(params.sort_option) /\ ~ignore_sort
    THEN PartialSort(docs, lim.limit, ValueOf(params.sort_option).order, "sort_score")
    ELSE { docs }
ApplySortBy(params, ignore_sort, docs, lim) ==
  IF HasValue(params.sort_option) /\ ~ignore_sort
    THEN PartialSort(docs, lim.end, ValueOf(params.sort_option).order, "sort_score")
    ELSE { docs }

\* docs[i] of the reply loop, i counted from 0; an index past the end reads
\* no document
OutOfRange == [key |-> << -1, -1 >>, values |-> << >>, knn_score |-> 0, sort_score |-> 0]
DocAt(docs, i) == IF i < Len(docs) THEN docs[i + 1] ELSE OutOfRange

\* the elements sent for docs[i]: the key, or the key and the value map
\* (SendSerializedDoc), the map holding the KNN score when it is returned
SendDoc(doc, ids_only, knn_score_ret_field) ==
  IF ids_only
    THEN << [type |-> "bulk", v |-> doc.key] >>
    ELSE << [type |-> "bulk", v |-> doc.key],
            [type |-> "map",
             v |-> IF HasValue(knn_score_ret_field)
                     THEN SetParam(doc.values, ValueOf(knn_score_ret_field), doc.knn_score)
                     ELSE doc.values] >>

RECURSIVE SendDocs(_, _, _, _, _)
SendDocs(docs, i, end, ids_only, knn_score_ret_field) ==
  IF i >= end
    THEN << >>
    ELSE SendDoc(DocAt(docs, i), ids_only, knn_score_ret_field)
           \o SendDocs(docs, i + 1, end, ids_only, knn_score_ret_field)

\* SearchReply: every reply it may produce.  knn_docs is the vector docs
\* after the KNN cut, docs the vector the reply loop reads, declared the
\* length given to ArrayScope, sent the elements sent in order, emitted the
\* documents read by the loop, out_of_range whether the loop read past the end
SearchReply(params, knn_sort_option, results) ==
  LET merged == MergeResults(results)
      cuts == IF HasValue(knn_sort_option)
                THEN KnnCut(merged.total_hits, merged.docs, ValueOf(knn_sort_option))
                ELSE { merged }
      ignore_sort ==
        /\ HasValue(knn_sort_option)
        /\ \/ ~HasValue(params.sort_option)
           \/ IsSame(ValueOf(params.sort_option), ValueOf(knn_sort_option))
      knn_score_ret_field ==
        IF /\ HasValue(knn_sort_option)
           /\ ShouldReturnField(params, ValueOf(knn_sort_option).score_field_alias)
          THEN Some(ValueOf(knn_sort_option).score_field_alias)
          ELSE Nullopt
      ids_only == IdsOnly(params)
      Reply(cut, lim, docs) ==
        [total_hits |-> cut.total_hits,
         knn_docs |-> cut.docs,
         docs |-> docs,
         offset |-> lim.offset,
         limit |-> lim.limit,
         declared |-> IF ids_only THEN lim.limit + 1 ELSE lim.limit * 2 + 1,
         sent |-> << [type |-> "long", v |-> cut.total_hits] >>
                    \o SendDocs(docs, lim.offset, lim.end, ids_only, knn_score_ret_field),
         emitted |-> [i \in 1 .. (lim.end - lim.offset) |-> DocAt(docs, lim.offset + i - 1)],
         out_of_range |-> \E i \in lim.offset .. (lim.end - 1) : i >= Len(docs)]
  IN UNION { { Reply(cut, ApplyLimit(params, Len(cut.docs)), docs) :
                 docs \in ApplySortBy(params, ignore_sort, cut.docs,
                                      ApplyLimit(params, Len(cut.docs))) } :
             cut \in cuts }

(***************************************************************************)
(* Parsing FT.SEARCH arguments: the argument vector after <index> <query>, *)
(* and what ParseSearchParams returns for it.                              *)
(***************************************************************************)
VARIABLES
  sargs,    \* the arguments given to the parser
  sresult,  \* nullopt before the call, then the ParseResult returned
  sparser   \* the parsing function that is called on sargs

parseVars == << sargs, sresult, sparser >>

SearchTokens == { "LOAD", "RETURN", "NOCONTENT", "return", "1", "2", "@a", "AS" }
SearchArgVectors == UNION { [1 .. n -> SearchTokens] : n \in 0 .. MaxArgs }

ParseInit ==
  /\ sargs \in SearchArgVectors
  /\ sresult = Nullopt
  /\ sparser = "ParseSearchParams"

\* the call ParseSearchParams(&parser) of FtSearch
CallParseSearchParams ==
  /\ sparser = "ParseSearchParams"
  /\ sresult = Nullopt
  /\ sresult' = Some(ParseSearchParams(CmdArgParser(sargs)))
  /\ UNCHANGED << sargs, sparser >>

\* the call ParseCreateParams(&parser) of FtCreate, after the index name
CallParseCreateParams ==
  /\ sparser = "ParseCreateParams"
  /\ sresult = Nullopt
  /\ sresult' = Some(ParseCreateParams(CmdArgParser(sargs)))
  /\ UNCHANGED << sargs, sparser >>

\* the call ParseAggregatorParams(&parser) of FtAggregate
CallParseAggregatorParams ==
  /\ sparser = "ParseAggregatorParams"
  /\ sresult = Nullopt
  /\ sresult' = Some(ParseAggregatorParams(CmdArgParser(sargs)))
  /\ UNCHANGED << sargs, sparser >>

\* the call ParseAggregatorSortParams(&parser) after SORTBY
CallParseAggregatorSortParams ==
  /\ sparser = "ParseAggregatorSortParams"
  /\ sresult = Nullopt
  /\ sresult' = Some(ParseAggregatorSortParams(CmdArgParser(sargs)))
  /\ UNCHANGED << sargs, sparser >>

\* what may follow SORTBY: counts, fields with and without '@', directions
SortByTokens == { "0", "1", "2", "3", "@a", "@b", "b", "ASC", "DESC", "MAX" }
SortByInit ==
  /\ sparser = "ParseAggregatorSortParams"
  /\ sargs \in UNION { [1 .. n -> SortByTokens] : n \in 0 .. MaxArgs }
  /\ sresult = Nullopt

\* FT.AGGREGATE arguments with one REDUCE clause: any function, any nargs,
\* with and without a source field
ReduceInit ==
  /\ sparser = "ParseAggregatorParams"
  /\ sresult = Nullopt
  /\ sargs \in { << "idx", "*", "GROUPBY" >> \o group \o << "REDUCE", func, nargs >> \o source
                   \o << "AS", result >> :
                  group \in { << "0" >>, << "1", "@a" >> }, func \in ReducerFuncs,
                  nargs \in { "0", "1", "2" }, source \in { << >>, << "@a" >>, << "b" >> },
                  result \in { "r", "n" } }

\* the call ParseVector(parser) of ParseSchema, after VECTOR
CallParseVector ==
  /\ sparser = "ParseVector"
  /\ sresult = Nullopt
  /\ sresult' = Some(ParseVector(CmdArgParser(sargs)))
  /\ UNCHANGED << sargs, sparser >>

\* what may follow VECTOR: the algorithm, the count, then keys, values and
\* the flag of the field
VectorTokens == { "DIM", "2", "0", "TYPE", "FLOAT32", "SORTABLE" }
VectorInit ==
  /\ sparser = "ParseVector"
  /\ sresult = Nullopt
  /\ sargs \in { << algo, nargs >> \o v :
                  algo \in { "FLAT", "HNSW" }, nargs \in { "0", "1", "2", "3", "4" },
                  v \in UNION { [1 .. n -> VectorTokens] : n \in 0 .. MaxArgs } }

\* FT.SEARCH arguments that start with PARAMS and an even count: names,
\* values and a clause
QueryParamTokens == { "k", "j", "v", "w", "NOCONTENT" }
QueryParamsInit ==
  /\ sparser = "ParseSearchParams"
  /\ sresult = Nullopt
  /\ sargs \in { << "PARAMS", n >> \o v :
                  n \in { "0", "2", "4" },
                  v \in UNION { [1 .. m -> QueryParamTokens] : m \in 0 .. MaxArgs + 1 } }

\* the argument vectors with a token that is no clause: after the start,
\* after a clause, after another such token
SearchClauseTokens == { "NOCONTENT", "LIMIT", "0", "1", "WITHSCORES", "x" }
CreateClauseTokens == { "ON", "HASH", "MAXTEXTFIELDS", "x", "SCHEMA", "name", "TEXT" }
AggregateClauseTokens == { "LIMIT", "0", "1", "FILTER", "x" }
ClauseArgVectors(tokens) == UNION { [1 .. n -> tokens] : n \in 0 .. MaxArgs }

\* the parsers with a loop that a count in the arguments governs, every
\* result carrying the iterations its loop made
CallParseVectorParams ==
  /\ sparser = "ParseVectorParams"
  /\ sresult = Nullopt
  /\ sresult' = Some(ParseVectorParams(CmdArgParser(sargs)))
  /\ UNCHANGED << sargs, sparser >>
CallParseStopwords ==
  /\ sparser = "ParseStopwords"
  /\ sresult = Nullopt
  /\ sresult' = Some(StopwordsLoop(NextInt(CmdArgParser(sargs)).p,
                                   NextInt(CmdArgParser(sargs)).v, { }))
  /\ UNCHANGED << sargs, sparser >>
CallParseLoadOrReturnFields ==
  /\ sparser = "ParseLoadOrReturnFields"
  /\ sresult = Nullopt
  /\ \E is_load \in BOOLEAN :
       sresult' = Some(ParseLoadOrReturnFields(CmdArgParser(sargs), is_load))
  /\ UNCHANGED << sargs, sparser >>
CallParseQueryParams ==
  /\ sparser = "ParseQueryParams"
  /\ sresult = Nullopt
  /\ sresult' = Some(ParseQueryParams(CmdArgParser(sargs)))
  /\ UNCHANGED << sargs, sparser >>

\* a count, any the parser converts, before any tokens; the algorithm first
\* for the parameters of a vector
CountedTokens == { "DIM", "2", "@a", "AS" }
CountsInit ==
  /\ sresult = Nullopt
  /\ \E n \in { Numerals[i] : i \in 1 .. Len(Numerals) }, v \in ClauseArgVectors(CountedTokens) :
       \/ /\ sparser = "ParseVectorParams"
          /\ \E algo \in { "FLAT", "HNSW" } : sargs = << algo, n >> \o v
       \/ /\ sparser \in { "ParseStopwords", "ParseLoadOrReturnFields", "ParseQueryParams" }
          /\ sargs = << n >> \o v

ClausesInit ==
  /\ sresult = Nullopt
  /\ \/ sparser = "ParseSearchParams" /\ sargs \in ClauseArgVectors(SearchClauseTokens)
     \/ sparser = "ParseCreateParams" /\ sargs \in ClauseArgVectors(CreateClauseTokens)
     \/ /\ sparser = "ParseAggregatorParams"
        /\ sargs \in { << "idx", "*" >> \o v : v \in ClauseArgVectors(AggregateClauseTokens) }

(***************************************************************************)
(* SearchReply applied to the results of one FT.SEARCH: the parsed params, *)
(* the KNN sort option of the query and the per-shard results.             *)
(***************************************************************************)
VARIABLES
  rparams,   \* SearchParams, as parsed from the clauses of the command
  rknn,      \* optional KnnScoreSortOption [score_field_alias, limit]
  rresults,  \* [Shards -> SearchResult]
  rout       \* nullopt before the call, then what SearchReply did

replyVars == << rparams, rknn, rresults, rout >>

Scores == { 0, 1 }
KnnLimits == { 1, 2 }
KnnAlias == "k"

\* hits matched beyond the serialized documents
UnserializedHits == { 0, 1 }

\* The results of the shards for n documents in all: the documents are
\* spread over the shards in turn (shard s holds those numbered s, s +
\* NumShards, ...), each with its own scores sc[g]; total_hits of a shard
\* counts its serialized documents, and on shard 0 the h hits matched beyond
\* them (only the sum of total_hits enters the merge)
DocCount(s, n) == Cardinality({ g \in 0 .. (n - 1) : g % NumShards = s })
ShardResults(n, h, sc) ==
  [s \in Shards |->
     SearchResult(DocCount(s, n) + (IF s = 0 THEN h ELSE 0),
                  [i \in 1 .. DocCount(s, n) |->
                     SerializedSearchDoc(<<s, i>>,
                                         sc[s + (i - 1) * NumShards + 1][1],
                                         sc[s + (i - 1) * NumShards + 1][2])])]
ResultVectors ==
  UNION { { ShardResults(n, h, sc) : h \in UnserializedHits,
                                     sc \in [1 .. n -> Scores \X Scores] } :
          n \in 0 .. MaxDocs }

LimitClauses ==
  { << >>, << "LIMIT", "0", "0" >>, << "LIMIT", "0", "1" >>, << "LIMIT", "1", "1" >>,
    << "LIMIT", "1", "2" >>, << "LIMIT", "3", "2" >> }
ContentClauses == { << >>, << "NOCONTENT" >> }
SortClauses ==
  { << >>, << "SORTBY", "@s" >>, << "SORTBY", "@s", "DESC" >>, << "SORTBY", "@k" >> }
ReplyArgVectors ==
  { l \o c \o sb : l \in LimitClauses, c \in ContentClauses, sb \in SortClauses }

KnnOptions ==
  { Nullopt } \cup { Some([score_field_alias |-> KnnAlias, limit |-> k]) : k \in KnnLimits }

ReplyInit ==
  /\ rparams \in { ParseSearchParams(CmdArgParser(a)).val : a \in ReplyArgVectors }
  /\ rknn \in KnnOptions
  /\ rresults \in ResultVectors
  /\ rout = Nullopt

\* the call SearchReply(*params, knn_sort_option, docs, builder) of FtSearch
CallSearchReply ==
  /\ rout = Nullopt
  /\ \E o \in SearchReply(rparams, rknn, rresults) : rout' = Some(o)
  /\ UNCHANGED << rparams, rknn, rresults >>

(***************************************************************************)
(* The index registry.  Every shard keeps its own ShardDocIndices, a map   *)
(* from index name to ShardDocIndex; FT.CREATE, FT.ALTER, FT.DROPINDEX and *)
(* FT.INFO run closures on every shard through the client's transaction.   *)
(***************************************************************************)
VARIABLES
  indices,     \* [Shards -> [IndexNames -> optional ShardDocIndex]]
  tx_owner,    \* the client whose transaction is scheduled, 0 when none is
  pc,          \* [Clients -> position of the client's command handler]
  cmd,         \* [Clients -> the command being handled]
  pending,     \* [Clients -> shards that have not yet run the current hop]
  frame,       \* [Clients -> local variables of the handler]
  last_reply,  \* the command that returned last and the replies it sent;
               \* nullopt once another transaction has been scheduled
  tx_start,    \* indices as they were when the last transaction was scheduled
  created_ok   \* [IndexNames -> FT.CREATE commands that replied OK since the
               \*  last FT.DROPINDEX of the name that replied OK]

regVars ==
  << indices, tx_owner, pc, cmd, pending, frame, last_reply, tx_start, created_ok >>

IndexNames == { "idx", "idx2" }

\* ShardDocIndices (server/search/doc_index.h) of one shard
GetIndex(registry, name) == registry[name]
InitIndex(registry, name, index) == [registry EXCEPT ![name] = Some([base_index |-> index])]
DropIndex(registry, name) ==
  [registry |-> [registry EXCEPT ![name] = Nullopt], v |-> HasValue(registry[name])]
\* ShardDocIndex::GetInfo
GetInfo(index) == [base_index |-> index.base_index, num_docs |-> 0]

OkReply == [type |-> "ok", msg |-> << "OK" >>]
ErrorReply(msg) == [type |-> "error", msg |-> msg]

Command(verb, args, db) == [verb |-> verb, args |-> args, db_index |-> db]
NoCommand == Command("", << >>, 0)
IdleFrame ==
  [parser |-> CmdArgParser(<< >>), parsed_index |-> Nullopt, exists_cnt |-> 0,
   index_info |-> Nullopt, num_deleted |-> 0, num_notfound |-> 0,
   infos |-> [s \in Shards |-> Nullopt],
   first |-> 0, names |-> { },
   assigning |-> { },   \* the shards whose closure is assigning names
   names_writes |-> 0]  \* the assignments to names that were made

\* the argument vectors the clients send
CreateTails ==
  { << "ON", "HASH", "SCHEMA", "name", "TEXT" >>,
    << "on", "JSON", "PREFIX", "1", "doc:", "SCHEMA", "$.a", "AS", "a", "TEXT", "SORTABLE" >>,
    << "SCHEMA", "name", "TEXT", "name", "TAG" >> }
AlterTails ==
  { << "SCHEMA", "ADD", "n", "NUMERIC" >>,
    << "SCHEMA", "ADD", "name", "TAG" >>,
    << "SCHEMA", "ADD" >>,
    << "ADD", "n", "NUMERIC" >> }
CreateArgs == { << n >> \o t : n \in IndexNames, t \in CreateTails }
AlterArgs == { << n >> \o t : n \in IndexNames, t \in AlterTails }

\* the argument vectors of a single connection that defines and extends
\* schemas: an identifier given twice under two aliases, an ignored
\* option, an added field whose alias or identifier is already there
SchemaCreateTails ==
  { << "ON", "HASH", "SCHEMA", "name", "TEXT" >>,
    << "on", "JSON", "PREFIX", "1", "doc:", "SCHEMA", "$.a", "AS", "a", "TEXT", "SORTABLE" >>,
    << "SCHEMA", "name", "TEXT", "name", "TAG" >>,
    << "SCHEMA", "name", "AS", "a", "TEXT", "NOSTEM", "name", "AS", "b", "TAG", "NOINDEX" >> }
SchemaAlterTails ==
  { << "SCHEMA", "ADD", "n", "NUMERIC" >>,
    << "SCHEMA", "ADD", "name", "AS", "b", "TAG" >>,
    << "SCHEMA", "ADD", "other", "AS", "name", "TAG" >>,
    << "SCHEMA", "ADD", "n", "TEXT", "n", "TAG" >>,
    << "ADD", "n", "NUMERIC" >> }
SchemaCreateArgs == { << n >> \o t : n \in IndexNames, t \in SchemaCreateTails }
SchemaAlterArgs == { << n >> \o t : n \in IndexNames, t \in SchemaAlterTails }
NameArgs == { << n >> : n \in IndexNames }

RegInit ==
  /\ indices = [s \in Shards |-> [n \in IndexNames |-> Nullopt]]
  /\ tx_owner = 0
  /\ pc = [c \in Clients |-> "idle"]
  /\ cmd = [c \in Clients |-> NoCommand]
  /\ pending = [c \in Clients |-> { }]
  /\ frame = [c \in Clients |-> IdleFrame]
  /\ last_reply = Nullopt
  /\ tx_start = [s \in Shards |-> [n \in IndexNames |-> Nullopt]]
  /\ created_ok = [n \in IndexNames |-> 0]

\* ---- the command table ----
kReadOnlyMask == { "NO_KEY_TRANSACTIONAL", "NO_KEY_TX_SPAN_ALL", "NO_AUTOJOURNAL", "IDEMPOTENT" }

\* the flags a command is registered with
Register_CreateNotGlobal(verb) ==
  IF verb \in { "FT.ALTER", "FT.DROPINDEX", "FT.SYNUPDATE" }
    THEN { "WRITE", "GLOBAL_TRANS" }
    ELSE IF verb = "FT.CREATE" THEN { "WRITE" } ELSE kReadOnlyMask
Register(verb) ==
  IF verb \in { "FT.CREATE", "FT.ALTER", "FT.DROPINDEX", "FT.SYNUPDATE" }
    THEN { "WRITE", "GLOBAL_TRANS" }
    ELSE kReadOnlyMask

\* ---- the transaction runtime (server/transaction.h) ----
\* a transaction over all shards is ordered against every other one that is
\* global or spans all shards
Ordered(verb) == Register(verb) \cap { "GLOBAL_TRANS", "NO_KEY_TX_SPAN_ALL" } # { }

\* The first Execute or ScheduleSingleHop of command schedules the
\* transaction of client c on all shards: an ordered transaction runs when no
\* other transaction is scheduled, and its first hop hands the closure to
\* every shard
Schedule(c, command, position, locals) ==
  /\ Ordered(command.verb) => tx_owner = 0
  /\ tx_owner' = c
  /\ tx_start' = indices
  /\ pc' = [pc EXCEPT ![c] = position]
  /\ pending' = [pending EXCEPT ![c] = Shards]
  /\ cmd' = [cmd EXCEPT ![c] = command]
  /\ frame' = [frame EXCEPT ![c] = locals]
  /\ last_reply' = Nullopt
  /\ UNCHANGED << indices, created_ok >>

\* Execute(cb, is_final) of a transaction already scheduled
Execute(c, position) ==
  /\ pc' = [pc EXCEPT ![c] = position]
  /\ pending' = [pending EXCEPT ![c] = Shards]

\* shard s runs the closure of the hop client c is at
RunsOn(c, s, position) ==
  /\ pc[c] = position
  /\ s \in pending[c]
  /\ pending' = [pending EXCEPT ![c] = pending[c] \ { s }]

\* all shards have run the closure of the hop client c is at
HopDone(c, position) ==
  /\ pc[c] = position
  /\ pending[c] = { }

\* what last_reply records of a command
Replied(c, command, replies, ends) ==
  Some([verb |-> command.verb, args |-> command.args, replies |-> replies,
        tx_ends |-> ends])

\* the handler returns before its transaction was ever scheduled
ReturnsUnscheduled(c, command, replies) ==
  /\ last_reply' = Replied(c, command, replies, 0)
  /\ UNCHANGED << indices, tx_owner, pc, cmd, pending, frame, tx_start, created_ok >>

\* the handler of c returns after its transaction ended (Conclude, the final
\* Execute or the single hop), ends counting the times it ended it
Returns(c, replies, ends) ==
  /\ tx_owner' = IF ends > 0 THEN 0 ELSE tx_owner
  /\ pc' = [pc EXCEPT ![c] = "idle"]
  /\ cmd' = [cmd EXCEPT ![c] = NoCommand]
  /\ frame' = [frame EXCEPT ![c] = IdleFrame]
  /\ last_reply' = Replied(c, cmd[c], replies, ends)
  /\ UNCHANGED << pending, tx_start >>

IdxName(c) == cmd[c].args[1]

\* ---- FT.CREATE ----
\* FtCreate up to the first Execute: the db check, the parse and its error
FtCreateSchedule(c, command, parsed_index, error) ==
  IF command.db_index # 0
    THEN ReturnsUnscheduled(c, command,
                            << ErrorReply(<< "Cannot create index on db != 0" >>) >>)
    ELSE IF HasValue(error)
      THEN ReturnsUnscheduled(c, command, << ErrorReply(ValueOf(error)) >>)
      ELSE Schedule(c, command, "create_exists",
                    [IdleFrame EXCEPT !.parsed_index = Some(parsed_index.val)])

FtCreateParsed(c, command, parsed_index) ==
  FtCreateSchedule(c, command, parsed_index, SendErrorIfOccurred(parsed_index))

\* "string_view idx_name = parser.Next(); ParseCreateParams(&parser)" for each
\* argument vector a client may send
CreateParsed ==
  [args \in CreateArgs \cup SchemaCreateArgs |->
     ParseCreateParams(Next(CmdArgParser(args)).p)]

\* FtCreate with its arguments drawn from sent
FtCreateOf(c, sent) ==
  \E args \in sent, db \in { 0, 1 } :
    /\ pc[c] = "idle"
    /\ FtCreateParsed(c, Command("FT.CREATE", args, db), CreateParsed[args])

FtCreate(c) == FtCreateOf(c, CreateArgs)

\* the closure of the first Execute: "Check if index already exists"
FtCreateExists(c, s) ==
  /\ RunsOn(c, s, "create_exists")
  /\ frame' = [frame EXCEPT ![c].exists_cnt =
                 IF HasValue(GetIndex(indices[s], IdxName(c))) THEN @ + 1 ELSE @]
  /\ UNCHANGED << indices, tx_owner, pc, cmd, last_reply, tx_start, created_ok >>

\* after the first Execute: Conclude and the error, or the second Execute
FtCreateChecked_InitAnyway(c) ==
  /\ HopDone(c, "create_exists")
  /\ Execute(c, "create_init")
  /\ UNCHANGED << indices, tx_owner, cmd, frame, last_reply, tx_start, created_ok >>
FtCreateChecked(c) ==
  /\ HopDone(c, "create_exists")
  /\ IF frame[c].exists_cnt > 0
       THEN /\ Returns(c, << ErrorReply(<< "Index already exists" >>) >>, 1)
            /\ UNCHANGED << indices, created_ok >>
       ELSE /\ Execute(c, "create_init")
            /\ UNCHANGED << indices, tx_owner, cmd, frame, last_reply, tx_start, created_ok >>

\* the closure of the second Execute: InitIndex
FtCreateInit_FirstShardOnly(c, s) ==
  /\ RunsOn(c, s, "create_init")
  /\ indices' = IF s = 0
                  THEN [indices EXCEPT ![s] = InitIndex(@, IdxName(c),
                                                        ValueOf(frame[c].parsed_index))]
                  ELSE indices
  /\ UNCHANGED << tx_owner, pc, cmd, frame, last_reply, tx_start, created_ok >>
FtCreateInit(c, s) ==
  /\ RunsOn(c, s, "create_init")
  /\ indices' = [indices EXCEPT ![s] = InitIndex(@, IdxName(c), ValueOf(frame[c].parsed_index))]
  /\ UNCHANGED << tx_owner, pc, cmd, frame, last_reply, tx_start, created_ok >>

\* after the second, final Execute: SendOk
FtCreateDone(c) ==
  /\ HopDone(c, "create_init")
  /\ Returns(c, << OkReply >>, 1)
  /\ created_ok' = [created_ok EXCEPT ![IdxName(c)] = @ + 1]
  /\ UNCHANGED indices

\* ---- FT.ALTER ----
\* FtAlter up to the first Execute
\* "parser.Next(); parser.ExpectTag("SCHEMA"); parser.ExpectTag("ADD")" for
\* each argument vector a client may send
AlterParser ==
  [args \in AlterArgs \cup SchemaAlterArgs |->
     ExpectTag(ExpectTag(Next(CmdArgParser(args)).p, "SCHEMA"), "ADD")]

\* FtAlter with its arguments drawn from sent
FtAlterOf(c, sent) ==
  \E args \in sent :
    /\ pc[c] = "idle"
    /\ LET parser == AlterParser[args]
           command == Command("FT.ALTER", args, 0)
       IN IF HasError(parser)
            THEN ReturnsUnscheduled(c, command, << ErrorReply(MakeReply(parser.err)) >>)
            ELSE Schedule(c, command, "alter_fetch", [IdleFrame EXCEPT !.parser = parser])

FtAlter(c) == FtAlterOf(c, AlterArgs)

\* idx_cb: "all shards have the same data, fetch from first"
FtAlterFetch_EveryShard(c, s) ==
  /\ RunsOn(c, s, "alter_fetch")
  /\ frame' = IF ~HasValue(GetIndex(indices[s], IdxName(c)))
                THEN frame
                ELSE [frame EXCEPT ![c].index_info =
                        Some(GetInfo(ValueOf(GetIndex(indices[s], IdxName(c)))).base_index)]
  /\ UNCHANGED << indices, tx_owner, pc, cmd, last_reply, tx_start, created_ok >>
FtAlterFetch(c, s) ==
  /\ RunsOn(c, s, "alter_fetch")
  /\ frame' = IF s > 0 \/ ~HasValue(GetIndex(indices[s], IdxName(c)))
                THEN frame
                ELSE [frame EXCEPT ![c].index_info =
                        Some(GetInfo(ValueOf(GetIndex(indices[s], IdxName(c)))).base_index)]
  /\ UNCHANGED << indices, tx_owner, pc, cmd, last_reply, tx_start, created_ok >>

\* "Merge schemas": insert the new fields and names into the existing ones
MergeSchemas_Overwrite(schema, new_fields) ==
  [fields |-> MapInsert(new_fields.fields, schema.fields),
   field_names |-> MapInsert(new_fields.field_names, schema.field_names)]
MergeSchemas(schema, new_fields) ==
  [fields |-> MapInsert(schema.fields, new_fields.fields),
   field_names |-> MapInsert(schema.field_names, new_fields.field_names)]

\* after the first Execute: not found, the parse of the added schema, the
\* merge and the second Execute
FtAlterExecute_IgnoreError(c, index_info, parse_result, error) ==
  /\ Execute(c, "alter_update")
  /\ frame' = [frame EXCEPT ![c].index_info = Some(index_info)]
  /\ UNCHANGED << indices, tx_owner, cmd, last_reply, tx_start, created_ok >>
FtAlterExecute(c, index_info, parse_result, error) ==
  IF HasValue(error)
    THEN /\ Returns(c, << ErrorReply(ValueOf(error)) >>, 1)
         /\ UNCHANGED << indices, created_ok >>
    ELSE /\ Execute(c, "alter_update")
         /\ frame' = [frame EXCEPT ![c].index_info =
                        Some([index_info EXCEPT !.schema =
                                MergeSchemas(@, parse_result.val.schema)])]
         /\ UNCHANGED << indices, tx_owner, cmd, last_reply, tx_start, created_ok >>

FtAlterParsed(c, index_info, parse_result) ==
  FtAlterExecute(c, index_info, parse_result, SendErrorIfOccurred(parse_result))

FtAlterMerge_NoConclude(c) ==
  /\ HopDone(c, "alter_fetch")
  /\ IF ~HasValue(frame[c].index_info)
       THEN /\ Returns(c, << ErrorReply(<< "Index not found" >>) >>, 0)
            /\ UNCHANGED << indices, created_ok >>
       ELSE FtAlterParsed(c, ValueOf(frame[c].index_info),
                          ParseSchema(frame[c].parser,
                                      [DefaultDocIndex EXCEPT
                                         !.type = ValueOf(frame[c].index_info).type]))
FtAlterMerge(c) ==
  /\ HopDone(c, "alter_fetch")
  /\ IF ~HasValue(frame[c].index_info)
       THEN /\ Returns(c, << ErrorReply(<< "Index not found" >>) >>, 1)
            /\ UNCHANGED << indices, created_ok >>
       ELSE FtAlterParsed(c, ValueOf(frame[c].index_info),
                          ParseSchema(frame[c].parser,
                                      [DefaultDocIndex EXCEPT
                                         !.type = ValueOf(frame[c].index_info).type]))

\* upd_cb: "Rebuild index"
FtAlterUpdate_FirstShardOnly(c, s) ==
  /\ RunsOn(c, s, "alter_update")
  /\ indices' = IF s = 0
                  THEN [indices EXCEPT ![s] =
                          InitIndex(DropIndex(@, IdxName(c)).registry, IdxName(c),
                                    ValueOf(frame[c].index_info))]
                  ELSE indices
  /\ UNCHANGED << tx_owner, pc, cmd, frame, last_reply, tx_start, created_ok >>
FtAlterUpdate(c, s) ==
  /\ RunsOn(c, s, "alter_update")
  /\ indices' = [indices EXCEPT ![s] =
                   InitIndex(DropIndex(@, IdxName(c)).registry, IdxName(c),
                             ValueOf(frame[c].index_info))]
  /\ UNCHANGED << tx_owner, pc, cmd, frame, last_reply, tx_start, created_ok >>

\* after the second, final Execute: SendOk
FtAlterDone(c) ==
  /\ HopDone(c, "alter_update")
  /\ Returns(c, << OkReply >>, 1)
  /\ UNCHANGED << indices, created_ok >>

\* ---- FT.DROPINDEX ----
FtDropIndex(c) ==
  \E args \in NameArgs :
    /\ pc[c] = "idle"
    /\ Schedule(c, Command("FT.DROPINDEX", args, 0), "drop", IdleFrame)

\* the closure of ScheduleSingleHop
FtDropIndexHop_FirstShardOnly(c, s) ==
  /\ RunsOn(c, s, "drop")
  /\ indices' = IF s = 0 THEN [indices EXCEPT ![s] = DropIndex(@, IdxName(c)).registry]
                         ELSE indices
  /\ frame' = [frame EXCEPT ![c].num_deleted =
                 IF DropIndex(indices[s], IdxName(c)).v THEN @ + 1 ELSE @]
  /\ UNCHANGED << tx_owner, pc, cmd, last_reply, tx_start, created_ok >>
FtDropIndexHop(c, s) ==
  /\ RunsOn(c, s, "drop")
  /\ indices' = [indices EXCEPT ![s] = DropIndex(@, IdxName(c)).registry]
  /\ frame' = [frame EXCEPT ![c].num_deleted =
                 IF DropIndex(indices[s], IdxName(c)).v THEN @ + 1 ELSE @]
  /\ UNCHANGED << tx_owner, pc, cmd, last_reply, tx_start, created_ok >>

\* after the hop: the error or SendOk
FtDropIndexDone(c) ==
  /\ HopDone(c, "drop")
  /\ IF frame[c].num_deleted = 0
       THEN /\ Returns(c, << ErrorReply(<< "-Unknown Index name" >>) >>, 1)
            /\ UNCHANGED << indices, created_ok >>
       ELSE /\ Returns(c, << OkReply >>, 1)
            /\ created_ok' = [created_ok EXCEPT ![IdxName(c)] = 0]
            /\ UNCHANGED indices

\* ---- FT.INFO ----
FtInfo(c) ==
  \E args \in NameArgs :
    /\ pc[c] = "idle"
    /\ Schedule(c, Command("FT.INFO", args, 0), "info", IdleFrame)

\* the closure of ScheduleSingleHop
FtInfoHop(c, s) ==
  /\ RunsOn(c, s, "info")
  /\ frame' = IF ~HasValue(GetIndex(indices[s], IdxName(c)))
                THEN [frame EXCEPT ![c].num_notfound = @ + 1]
                ELSE [frame EXCEPT ![c].infos[s] =
                        Some(GetInfo(ValueOf(GetIndex(indices[s], IdxName(c)))))]
  /\ UNCHANGED << indices, tx_owner, pc, cmd, last_reply, tx_start, created_ok >>

\* std::to_string of a number
to_string(n) == Numerals[n + 1]

\* the attribute array sent for a field
InfoAttribute(field_ident, field_info) ==
  << "identifier", field_ident, "attribute", field_info.short_name, "type", field_info.type >>
    \o (IF "NOINDEX" \in field_info.flags THEN << "NOINDEX" >> ELSE << >>)
    \o (IF "SORTABLE" \in field_info.flags THEN << "SORTABLE" >> ELSE << >>)
    \o (IF field_info.type = "NUMERIC"
          THEN << "blocksize", to_string(field_info.special_params.block_size) >>
          ELSE << >>)

\* the map sent from infos.front(); the attributes come in the iteration
\* order of a hash map, so they are kept as a set
InfoReply(idx_name, info, total_num_docs) ==
  [type |-> "map",
   msg |-> << "index_name", idx_name >>,
   key_type |-> IF info.base_index.type = "JSON" THEN "JSON" ELSE "HASH",
   prefix |-> info.base_index.prefix,
   attributes |-> { InfoAttribute(f, info.base_index.schema.fields[f]) :
                      f \in DOMAIN info.base_index.schema.fields },
   num_docs |-> total_num_docs]

\* "total_num_docs += info.num_docs" over the slots from shard s on
RECURSIVE TotalNumDocs(_, _)
TotalNumDocs(infos, s) ==
  IF s >= NumShards THEN 0 ELSE ValueOf(infos[s]).num_docs + TotalNumDocs(infos, s + 1)

\* after the hop: the error or the map
FtInfoDone(c) ==
  /\ HopDone(c, "info")
  /\ IF frame[c].num_notfound > 0
       THEN Returns(c, << ErrorReply(<< "Unknown Index name" >>) >>, 1)
       ELSE Returns(c, << InfoReply(IdxName(c), ValueOf(frame[c].infos[0]),
                                    TotalNumDocs(frame[c].infos, 0)) >>, 1)
  /\ UNCHANGED << indices, created_ok >>

\* ---- FT._LIST ----
\* ShardDocIndices::GetIndexNames (server/search/doc_index.h); the vector
\* comes in the iteration order of a hash map, so it is kept as a set
GetIndexNames(registry) == { n \in IndexNames : HasValue(registry[n]) }

SendBulkStrArr(names) == [type |-> "bulk_str_arr", msg |-> << >>, names |-> names]

FtList(c) ==
  /\ pc[c] = "idle"
  /\ Schedule(c, Command("FT._LIST", << >>, 0), "list", IdleFrame)

\* the closure of ScheduleSingleHop up to the assignment: first.fetch_add(1)
\* is one atomic step, and the closure returns unless it read 0
FtListFirst_EveryShard(c, s) ==
  /\ pc[c] = "list"
  /\ s \in pending[c] \ frame[c].assigning
  /\ frame' = [frame EXCEPT ![c].first = @ + 1, ![c].assigning = @ \cup { s }]
  /\ UNCHANGED << indices, tx_owner, pc, cmd, pending, last_reply, tx_start, created_ok >>
FtListFirst(c, s) ==
  /\ pc[c] = "list"
  /\ s \in pending[c] \ frame[c].assigning
  /\ IF frame[c].first = 0
       THEN /\ frame' = [frame EXCEPT ![c].first = @ + 1, ![c].assigning = @ \cup { s }]
            /\ UNCHANGED pending
       ELSE /\ frame' = [frame EXCEPT ![c].first = @ + 1]
            /\ pending' = [pending EXCEPT ![c] = pending[c] \ { s }]
  /\ UNCHANGED << indices, tx_owner, pc, cmd, last_reply, tx_start, created_ok >>

\* "names = es->search_indices()->GetIndexNames()" and the return
FtListAssign(c, s) ==
  /\ s \in frame[c].assigning
  /\ RunsOn(c, s, "list")
  /\ frame' = [frame EXCEPT ![c].names = GetIndexNames(indices[s]),
                            ![c].assigning = @ \ { s },
                            ![c].names_writes = @ + 1]
  /\ UNCHANGED << indices, tx_owner, pc, cmd, last_reply, tx_start, created_ok >>

\* after the hop: SendBulkStrArr
FtListDone(c) ==
  /\ HopDone(c, "list")
  /\ Returns(c, << SendBulkStrArr(frame[c].names) >>, 1)
  /\ UNCHANGED << indices, created_ok >>

(***************************************************************************)
(* FT.SEARCH: the parse, the single hop that fills one slot of docs per    *)
(* shard, and the reply.                                                   *)
(***************************************************************************)
VARIABLES
  fargs,            \* the arguments of the command: index, query, clauses
  fpc,              \* "start", "hop" or "done"
  fpending,         \* shards that have not yet run the closure
  found,            \* [Shards -> what index->Search returns on the shard]
  fparams,          \* optional SearchParams, set once parsed
  fknn,             \* the KNN sort option of the query
  fdocs,            \* [Shards -> SearchResult], the slots the closures fill
  index_not_found,  \* the atomic flag the closures set
  freplies          \* what the handler sent to the client, in order

searchVars ==
  << fargs, fpc, fpending, found, fparams, fknn, fdocs, index_not_found, freplies >>

\* search::SearchAlgorithm (core/search/search.h): Init fails on a query
\* that does not parse, GetKnnScoreSortOption is set for a KNN query
KnnQuery == "*=>[KNN 2 @v $q AS k]"
Queries == { "*", KnnQuery, "(" }
SearchAlgorithmInit(query) == query # "("
GetKnnScoreSortOption(query) ==
  IF query = KnnQuery THEN Some([score_field_alias |-> KnnAlias, limit |-> 2]) ELSE Nullopt

SearchClauses == { << >>, << "NOCONTENT" >>, << "LIMIT", "0" >>, << "LIMIT", "x" >> }
SearchArgs ==
  { << n, q >> \o cl : n \in IndexNames, q \in Queries, cl \in SearchClauses }

\* what ShardDocIndex::Search may return on shard s
ShardErrors == { << "e1" >>, << "e2" >> }
ShardOutcomes(s) ==
  { SearchResult(0, << >>),
    SearchResult(1, << SerializedSearchDoc(<< s, 1 >>, s, 0) >>) }
    \cup { ErrorSearchResult(e) : e \in ShardErrors }

\* the registries a FT.SEARCH may meet: no index, or "idx" on every shard
\* (CreatedIndex is the definition FT.CREATE idx ON HASH SCHEMA name TEXT installs)
CreatedIndex ==
  [type |-> "HASH", prefix |-> "", stopwords |-> DefaultStopwords,
   schema |-> [fields |-> MapSet(EmptyMap, "name",
                                 [type |-> "TEXT", flags |-> { }, short_name |-> "name",
                                  special_params |-> [with_suffixtrie |-> FALSE]]),
               field_names |-> MapSet(EmptyMap, "name", "name")]]
SearchRegistries ==
  { [s \in Shards |-> [n \in IndexNames |-> Nullopt]],
    [s \in Shards |-> InitIndex([n \in IndexNames |-> Nullopt], "idx", CreatedIndex)] }

SearchInit ==
  /\ fargs \in SearchArgs
  /\ fpc = "start"
  /\ fpending = { }
  /\ found \in [Shards -> UNION { ShardOutcomes(s) : s \in Shards }]
  /\ \A s \in Shards : found[s] \in ShardOutcomes(s)
  /\ fparams = Nullopt
  /\ fknn = Nullopt
  /\ fdocs = [s \in Shards |-> SearchResult(0, << >>)]
  /\ index_not_found = FALSE
  /\ freplies = << >>

\* the registry part of the state FT.SEARCH starts in
SearchRegInit ==
  /\ indices \in SearchRegistries
  /\ tx_owner = 0
  /\ pc = [c \in Clients |-> "idle"]
  /\ cmd = [c \in Clients |-> NoCommand]
  /\ pending = [c \in Clients |-> { }]
  /\ frame = [c \in Clients |-> IdleFrame]
  /\ last_reply = Nullopt
  /\ tx_start = indices
  /\ created_ok = [n \in IndexNames |-> IF HasValue(indices[0][n]) THEN 1 ELSE 0]

\* FtSearch up to ScheduleSingleHop
FtSearch ==
  /\ fpc = "start"
  /\ LET parser == Next(Next(CmdArgParser(fargs)).p).p
         query_str == fargs[2]
         params == ParseSearchParams(parser)
         error == SendErrorIfOccurred(params)
     IN IF HasValue(error)
          THEN /\ freplies' = << ErrorReply(ValueOf(error)) >>
               /\ fpc' = "done"
               /\ UNCHANGED << fpending, fparams, fknn >>
          ELSE IF ~SearchAlgorithmInit(query_str)
            THEN /\ freplies' = << ErrorReply(<< "Query syntax error" >>) >>
                 /\ fpc' = "done"
                 /\ UNCHANGED << fpending, fparams, fknn >>
            ELSE /\ fparams' = Some(params.val)
                 /\ fknn' = GetKnnScoreSortOption(query_str)
                 /\ fpc' = "hop"
                 /\ fpending' = Shards
                 /\ UNCHANGED freplies
  /\ UNCHANGED << fargs, found, fdocs, index_not_found >>

\* the closure of ScheduleSingleHop on shard s
FtSearchHop_ArrivalOrder(s) ==
  /\ fpc = "hop"
  /\ s \in fpending
  /\ fpending' = fpending \ { s }
  /\ IF HasValue(GetIndex(indices[s], fargs[1]))
       THEN /\ fdocs' = [fdocs EXCEPT ![NumShards - Cardinality(fpending)] = found[s]]
            /\ UNCHANGED index_not_found
       ELSE index_not_found' = TRUE /\ UNCHANGED fdocs
  /\ UNCHANGED << fargs, fpc, found, fparams, fknn, freplies >>
FtSearchHop(s) ==
  /\ fpc = "hop"
  /\ s \in fpending
  /\ fpending' = fpending \ { s }
  /\ IF HasValue(GetIndex(indices[s], fargs[1]))
       THEN fdocs' = [fdocs EXCEPT ![s] = found[s]] /\ UNCHANGED index_not_found
       ELSE index_not_found' = TRUE /\ UNCHANGED fdocs
  /\ UNCHANGED << fargs, fpc, found, fparams, fknn, freplies >>

\* "for (const auto& res : docs) if (res.error) return SendError(*res.error)":
\* the error of the first slot, from shard s on, that holds one
RECURSIVE FirstError_LastSlot(_, _)
FirstError_LastSlot(results, s) ==
  IF s >= NumShards
    THEN Nullopt
    ELSE IF HasValue(FirstError_LastSlot(results, s + 1))
      THEN FirstError_LastSlot(results, s + 1)
      ELSE results[s].error
RECURSIVE FirstError(_, _)
FirstError(results, s) ==
  IF s >= NumShards
    THEN Nullopt
    ELSE IF HasValue(results[s].error)
      THEN results[s].error
      ELSE FirstError(results, s + 1)

\* after the hop: no such index, the first shard error, or SearchReply
FtSearchReply ==
  /\ fpc = "hop"
  /\ fpending = { }
  /\ fpc' = "done"
  /\ IF index_not_found
       THEN freplies' = << ErrorReply(<< fargs[1], ": no such index" >>) >>
       ELSE IF HasValue(FirstError(fdocs, 0))
         THEN freplies' = << ErrorReply(ValueOf(FirstError(fdocs, 0))) >>
         ELSE \E o \in SearchReply(ValueOf(fparams), fknn, fdocs) : freplies' = o.sent
  /\ UNCHANGED << fargs, fpending, found, fparams, fknn, fdocs, index_not_found >>

SearchIdle ==
  /\ fargs = << >>
  /\ fpc = "done"
  /\ fpending = { }
  /\ found = [s \in Shards |-> SearchResult(0, << >>)]
  /\ fparams = Nullopt
  /\ fknn = Nullopt
  /\ fdocs = [s \in Shards |-> SearchResult(0, << >>)]
  /\ index_not_found = FALSE
  /\ freplies = << >>

(***************************************************************************)
(* FT.PROFILE, FT.TAGVALS, FT.AGGREGATE, FT.SYNDUMP and FT.SYNUPDATE of    *)
(* one connection: the handler up to its hop, the closure on each shard,   *)
(* and the reply built after the hop.                                      *)
(***************************************************************************)
VARIABLES
  qverb,       \* the command being handled, "" before the first one
  qargs,       \* its arguments
  qpc,         \* "idle", "hop" or "done"
  qpending,    \* shards that have not yet run the closure
  qlocals,     \* what the handler parsed: params, or group_id and terms
  qslots,      \* [Shards -> the per-shard slot the closure fills]
  qnotfound,   \* the handler's atomic index_not_found
  qreplies,    \* what the handler sent to the client, in order
  dispatched,  \* calls of Execute and ScheduleSingleHop made by the command
  synonyms,    \* [Shards -> [IndexNames -> group_id -> set of terms]]
  syn_ok       \* [IndexNames -> group_id -> terms of its last SYNUPDATE replied OK]

queryVars ==
  << qverb, qargs, qpc, qpending, qlocals, qslots, qnotfound, qreplies, dispatched,
     synonyms, syn_ok >>

\* RedisReplyBuilder: the elements a handler sends
StartArray(len) == [type |-> "array", len |-> len]
StartMap(len) == [type |-> "map_start", len |-> len]
SendLong(v) == [type |-> "long", v |-> v]
SendBulkString(v) == [type |-> "bulk", v |-> v]
SendSimpleString(v) == [type |-> "simple", v |-> v]
\* SendLong of a measured absl::Duration
SendMicros == [type |-> "micros"]

\* the handler returns before any hop
QError(verb, args, msg) ==
  /\ qverb' = verb
  /\ qargs' = args
  /\ qpc' = "done"
  /\ qpending' = { }
  /\ qlocals' = Nullopt
  /\ qslots' = [s \in Shards |-> Nullopt]
  /\ qnotfound' = FALSE
  /\ qreplies' = << ErrorReply(msg) >>
  /\ dispatched' = 0
  /\ UNCHANGED << synonyms, syn_ok >>

\* the handler calls ScheduleSingleHop or Execute(cb, true): the closure is
\* handed to every shard
QDispatch(verb, args, locals, slots, not_found) ==
  /\ qverb' = verb
  /\ qargs' = args
  /\ qpc' = "hop"
  /\ qpending' = Shards
  /\ qlocals' = locals
  /\ qslots' = slots
  /\ qnotfound' = not_found
  /\ qreplies' = << >>
  /\ dispatched' = 1
  /\ UNCHANGED << synonyms, syn_ok >>

\* shard s runs the closure of verb
QRunsOn(verb, s) ==
  /\ qverb = verb
  /\ qpc = "hop"
  /\ s \in qpending
  /\ qpending' = qpending \ { s }
  /\ UNCHANGED << qverb, qargs, qpc, qlocals, qreplies, dispatched >>

\* every shard has run the closure of verb
QHopOver(verb) ==
  /\ qverb = verb
  /\ qpc = "hop"
  /\ qpending = { }

\* the handler of verb sends replies and returns
QReplies(verb, replies) ==
  /\ qpc' = "done"
  /\ qreplies' = replies
  /\ UNCHANGED << qverb, qargs, qpending, qlocals, qslots, qnotfound, dispatched, synonyms >>

\* ---- FT.PROFILE ----
\* search::AlgorithmProfile::ProfileEvent lists a shard may return
ProfileEvent(descr, depth, micros, num_processed) ==
  [descr |-> descr, depth |-> depth, micros |-> micros, num_processed |-> num_processed]
ProfileEvents ==
  { << >>, << ProfileEvent("Logical{n=2,o=and}", 0, 5, 1), ProfileEvent("Term{x}", 1, 2, 1) >> }

ProfileTails ==
  { << "SEARCH", "QUERY", "*" >>, << "SEARCH", "LIMITED", "QUERY", KnnQuery >>,
    << "AGGREGATE", "QUERY", "*", "NOCONTENT" >>, << "SEARCH", "QUERY", "(" >>,
    << "QUERY", "*", "NOCONTENT" >>, << "SEARCH", "*", "NOCONTENT" >>,
    << "SEARCH", "QUERY", "*", "LIMIT", "x" >> }
ProfileArgs == { << n >> \o t : n \in IndexNames, t \in ProfileTails }

\* the parser after Check("SEARCH") / Check("AGGREGATE"), Check("LIMITED") and
\* ExpectTag("QUERY")
ProfileQueryParser(p) == ExpectTag(Check(p, "LIMITED").p, "QUERY")

FtProfileParsed(args, p, query_str, params) ==
  IF HasValue(SendErrorIfOccurred(params))
    THEN QError("FT.PROFILE", args, ValueOf(SendErrorIfOccurred(params)))
    ELSE IF ~SearchAlgorithmInit(query_str.v)
      THEN QError("FT.PROFILE", args, << "query syntax error" >>)
      ELSE QDispatch("FT.PROFILE", args,
                     Some([params |-> params.val, knn |-> GetKnnScoreSortOption(query_str.v)]),
                     [s \in Shards |-> [result |-> SearchResult(0, << >>), events |-> << >>]],
                     FALSE)

FtProfileQuery(args, p) ==
  FtProfileParsed(args, p, Next(ProfileQueryParser(p)),
                  ParseSearchParams(Next(ProfileQueryParser(p)).p))

\* FtProfile up to ScheduleSingleHop (the grave accents of its first error
\* message are written as apostrophes)
FtProfile ==
  /\ qpc # "hop"
  /\ \E args \in ProfileArgs :
       IF Check(Next(CmdArgParser(args)).p, "SEARCH").v
         THEN FtProfileQuery(args, Check(Next(CmdArgParser(args)).p, "SEARCH").p)
         ELSE IF Check(Next(CmdArgParser(args)).p, "AGGREGATE").v
           THEN FtProfileQuery(args, Check(Next(CmdArgParser(args)).p, "AGGREGATE").p)
           ELSE QError("FT.PROFILE", args, << "no 'SEARCH' or 'AGGREGATE' provided" >>)

\* the closure of FtProfile on shard s
FtProfileHop(s) ==
  /\ QRunsOn("FT.PROFILE", s)
  /\ IF ~HasValue(GetIndex(indices[s], qargs[1]))
       THEN qnotfound' = TRUE /\ UNCHANGED qslots
       ELSE /\ \E r \in ShardOutcomes(s), e \in ProfileEvents :
                 qslots' = [qslots EXCEPT ![s] = [result |-> r, events |-> e]]
            /\ UNCHANGED qnotfound
  /\ UNCHANGED << synonyms, syn_ok >>

\* the children of event i: the events after it, up to the next one of its
\* depth, that are one level deeper
RECURSIVE ProfileChildren_AllDeeper(_, _, _)
ProfileChildren_AllDeeper(events, i, j) ==
  IF j > Len(events) \/ events[j].depth = events[i].depth
    THEN { }
    ELSE (IF events[j].depth > events[i].depth THEN { j } ELSE { })
           \cup ProfileChildren_AllDeeper(events, i, j + 1)
RECURSIVE ProfileChildren(_, _, _)
ProfileChildren(events, i, j) ==
  IF j > Len(events) \/ events[j].depth = events[i].depth
    THEN { }
    ELSE (IF events[j].depth = events[i].depth + 1 THEN { j } ELSE { })
           \cup ProfileChildren(events, i, j + 1)

RECURSIVE SumMicros(_, _)
SumMicros(events, js) ==
  IF js = { } THEN 0
  ELSE LET j == CHOOSE x \in js : TRUE
       IN events[j].micros + SumMicros(events, js \ { j })

ProfileEventReply(events, i, children) ==
  << StartMap(4 + (IF children # { } THEN 1 ELSE 0)),
     SendSimpleString("total_time"), SendLong(events[i].micros),
     SendSimpleString("operation"), SendSimpleString(events[i].descr),
     SendSimpleString("self_time"), SendLong(events[i].micros - SumMicros(events, children)),
     SendSimpleString("procecssed"), SendLong(events[i].num_processed) >>
    \o (IF children # { }
          THEN << SendSimpleString("children"), StartArray(Cardinality(children)) >>
          ELSE << >>)

RECURSIVE ProfileTree(_, _)
ProfileTree(events, i) ==
  IF i > Len(events)
    THEN << >>
    ELSE ProfileEventReply(events, i, ProfileChildren(events, i, i + 1))
           \o ProfileTree(events, i + 1)

\* the event lists a profile may hold, n events long: the first at depth 0,
\* each next at most one level deeper than the one before it
ProfileMicros == { 1, 2, 5 }
PreOrderEvents(n) ==
  { events \in [1 .. n -> { ProfileEvent("op", d, m, 1) : d \in 0 .. (n - 1), m \in ProfileMicros }] :
      /\ events[1].depth = 0
      /\ \A k \in 2 .. n : events[k].depth <= events[k - 1].depth + 1 }
TreeInit ==
  /\ sparser = "ProfileTree"
  /\ sresult = Nullopt
  /\ sargs \in UNION { PreOrderEvents(n) : n \in 1 .. MaxArgs }

\* the loop over the events of one shard, sargs being the events
CallProfileTree ==
  /\ sparser = "ProfileTree"
  /\ sresult = Nullopt
  /\ sresult' = Some(ProfileTree(sargs, 1))
  /\ UNCHANGED << sargs, sparser >>

\* "Per-shard stats"
RECURSIVE ProfileShards(_, _)
ProfileShards(slots, shard_id) ==
  IF shard_id >= NumShards
    THEN << >>
    ELSE << StartMap(2), SendBulkString("took"), SendMicros, SendBulkString("tree") >>
           \o (IF HasValue(slots[shard_id].result.error) \/ slots[shard_id].events = << >>
                 THEN << StartArray(0) >>
                 ELSE ProfileTree(slots[shard_id].events, 1))
           \o ProfileShards(slots, shard_id + 1)

RECURSIVE ProfileTotals(_, _)
ProfileTotals(slots, s) ==
  IF s >= NumShards
    THEN [total_docs |-> 0, total_serialized |-> 0, result_is_empty |-> FALSE]
    ELSE LET rest == ProfileTotals(slots, s + 1)
             result == slots[s].result
         IN IF ~HasValue(result.error)
              THEN [rest EXCEPT !.total_docs = @ + result.total_hits,
                                !.total_serialized = @ + Len(result.docs)]
              ELSE [rest EXCEPT !.result_is_empty = TRUE]

\* "Profile information"
ProfileInfo(slots, totals) ==
  << StartArray(NumShards + 1), StartMap(3),
     SendBulkString("took"), SendMicros,
     SendBulkString("hits"), SendLong(totals.total_docs),
     SendBulkString("serialized"), SendLong(totals.total_serialized) >>
    \o ProfileShards(slots, 0)

\* after the hop: no such index, or the search reply and the profile
FtProfileReply ==
  /\ QHopOver("FT.PROFILE")
  /\ UNCHANGED syn_ok
  /\ IF qnotfound
       THEN QReplies("FT.PROFILE", << ErrorReply(<< qargs[1], ": no such index" >>) >>)
       ELSE IF ProfileTotals(qslots, 0).result_is_empty
         THEN QReplies("FT.PROFILE",
                       << StartArray(2), StartArray(1), SendLong(0) >>
                         \o ProfileInfo(qslots, ProfileTotals(qslots, 0)))
         ELSE \E o \in SearchReply(ValueOf(qlocals).params, ValueOf(qlocals).knn,
                                   [s \in Shards |-> qslots[s].result]) :
                QReplies("FT.PROFILE",
                         << StartArray(2), StartArray(o.declared) >> \o o.sent
                           \o ProfileInfo(qslots, ProfileTotals(qslots, 0)))

\* ---- FT.TAGVALS ----
TagFields == { "t" }
TagValsArgs == { << n, f >> : n \in IndexNames, f \in TagFields }

\* what ShardDocIndex::GetTagVals may return on a shard
TagVals(vec) == [ok |-> TRUE, vec |-> vec, error |-> << >>]
TagValsError(msg) == [ok |-> FALSE, vec |-> << >>, error |-> msg]
TagValsOutcomes ==
  { TagVals(<< "red" >>), TagVals(<< "blue", "red" >>), TagValsError(<< "No such field" >>) }

\* FtTagVals up to ScheduleSingleHop
FtTagVals ==
  /\ qpc # "hop"
  /\ \E args \in TagValsArgs :
       QDispatch("FT.TAGVALS", args, Nullopt, [s \in Shards |-> TagVals(<< >>)], FALSE)

\* the closure of FtTagVals on shard s
FtTagValsHop(s) ==
  /\ QRunsOn("FT.TAGVALS", s)
  /\ IF HasValue(GetIndex(indices[s], qargs[1]))
       THEN \E r \in TagValsOutcomes : qslots' = [qslots EXCEPT ![s] = r]
       ELSE qslots' = [qslots EXCEPT ![s] = TagValsError(<< "-Unknown Index name" >>)]
  /\ UNCHANGED << qnotfound, synonyms, syn_ok >>

\* "Check first if either shard had errors. Also merge the results into a
\* single set": the error of the first failed shard from s on, or the union
RECURSIVE TagValsMerge(_, _, _)
TagValsMerge(shard_results, s, result_set) ==
  IF s >= NumShards
    THEN [type |-> "set", v |-> result_set]
    ELSE IF shard_results[s].ok
      THEN TagValsMerge(shard_results, s + 1,
                        result_set \cup { shard_results[s].vec[i] :
                                            i \in 1 .. Len(shard_results[s].vec) })
      ELSE [type |-> "error", msg |-> shard_results[s].error, kind |-> "kSearchErrType"]

FtTagValsReply ==
  /\ QHopOver("FT.TAGVALS")
  /\ QReplies("FT.TAGVALS", << TagValsMerge(qslots, 0, { }) >>)
  /\ UNCHANGED syn_ok

\* ---- FT.AGGREGATE ----
AggregateTails ==
  { << "*" >>, << "(" >>, << "*", "LIMIT", "0", "1" >>, << "*", "FILTER" >>,
    << "*", "LOAD", "1", "@a", "SORTBY", "1", "@a" >>,
    << "*", "GROUPBY", "1", "@a", "REDUCE", "COUNT", "0", "AS", "n" >>,
    << "*", "SORTBY", "1", "a" >> }
AggregateArgs == { << n >> \o t : n \in IndexNames, t \in AggregateTails }

\* what ShardDocIndex::SearchForAggregator may return on shard s: rows, each
\* a map from field to value
AggregatorRows(s) ==
  { << >>, << MapSet(EmptyMap, "a", s + 1) >>,
    << MapSet(EmptyMap, "a", 1), MapSet(MapSet(EmptyMap, "a", 1), "b", s) >> }

\* aggregate::Process (server/search/aggregator.h): the steps run in order on
\* the rows; every result it may return, rows of equal rank in any order
RowValue(row, field) == IF field \in DOMAIN row THEN Some(row[field]) ELSE Nullopt
ValueLess(l, r) == IF HasValue(l) /\ HasValue(r) THEN ValueOf(l) < ValueOf(r)
                   ELSE ~HasValue(l) /\ HasValue(r)

RECURSIVE RowLess(_, _, _, _)
RowLess(fields, i, l, r) ==
  IF i > Len(fields) THEN FALSE
  ELSE LET lv == RowValue(l, fields[i][1])
           rv == RowValue(r, fields[i][1])
       IN IF lv = rv THEN RowLess(fields, i + 1, l, r)
          ELSE IF fields[i][2] = "ASC" THEN ValueLess(lv, rv) ELSE ValueLess(rv, lv)

Arrangements(rows) ==
  { [i \in 1 .. Len(rows) |-> rows[f[i]]] : f \in IndexPermutations(Len(rows)) }

SeqElements(seq) == { seq[i] : i \in 1 .. Len(seq) }

RECURSIVE SumOf(_, _, _)
SumOf(rows, i, field) ==
  IF i > Len(rows) THEN 0
  ELSE (IF field \in DOMAIN rows[i] THEN rows[i][field] ELSE 0) + SumOf(rows, i + 1, field)

SourceValues(rows, field) ==
  { rows[i][field] : i \in { j \in 1 .. Len(rows) : field \in DOMAIN rows[j] } }

\* the value a reducer gives for the rows of one group (the mean as its
\* integer part)
Reduce(reducer, rows) ==
  LET source == SourceValues(rows, reducer.source_field)
  IN CASE reducer.func = "COUNT" -> Len(rows)
       [] reducer.func = "COUNT_DISTINCT" -> Cardinality(source)
       [] reducer.func = "SUM" -> SumOf(rows, 1, reducer.source_field)
       [] reducer.func = "AVG" -> SumOf(rows, 1, reducer.source_field) \div Len(rows)
       [] reducer.func = "MAX" ->
            IF source = { } THEN 0 ELSE CHOOSE v \in source : \A w \in source : w <= v
       [] reducer.func = "MIN" ->
            IF source = { } THEN 0 ELSE CHOOSE v \in source : \A w \in source : v <= w

RECURSIVE WithReducers(_, _, _, _)
WithReducers(row, reducers, i, rows) ==
  IF i > Len(reducers) THEN row
  ELSE WithReducers(MapSet(row, reducers[i].result_field, Reduce(reducers[i], rows)),
                    reducers, i + 1, rows)

GroupKey(row, fields) == [i \in 1 .. Len(fields) |-> RowValue(row, fields[i])]
GroupRow(key, fields) ==
  [f \in { fields[i] : i \in { j \in 1 .. Len(fields) : HasValue(key[j]) } } |->
     ValueOf(key[CHOOSE i \in 1 .. Len(fields) : fields[i] = f])]

GroupStep(rows, step) ==
  LET keys == { GroupKey(rows[i], step.fields) : i \in 1 .. Len(rows) }
      Members(key) == SelectSeq(rows, LAMBDA row : GroupKey(row, step.fields) = key)
      groups == { WithReducers(GroupRow(key, step.fields), step.reducers, 1, Members(key)) :
                    key \in keys }
  IN { out \in UNION { [1 .. n -> groups] : n \in { Cardinality(groups) } } :
         SeqElements(out) = groups }

SortStep(rows, step) ==
  LET sorted == { out \in Arrangements(rows) :
                    \A i, j \in 1 .. Len(out) : i < j => ~RowLess(step.fields, 1, out[j], out[i]) }
  IN { IF HasValue(step.max) THEN SubSeq(out, 1, Min(ValueOf(step.max), Len(out))) ELSE out :
         out \in sorted }

LimitStep(rows, step) ==
  { SubSeq(rows, Min(step.offset, Len(rows)) + 1, Min(step.offset + step.num, Len(rows))) }

ProcessStep(result, step) ==
  CASE step.kind = "GROUP" ->
         { [values |-> out,
            fields_to_print |->
              SeqElements(step.fields)
                \cup { step.reducers[i].result_field : i \in 1 .. Len(step.reducers) }] :
             out \in GroupStep(result.values, step) }
    [] step.kind = "SORT" ->
         { [result EXCEPT !.values = out] : out \in SortStep(result.values, step) }
    [] step.kind = "LIMIT" ->
         { [result EXCEPT !.values = out] : out \in LimitStep(result.values, step) }

RECURSIVE ProcessSteps(_, _, _)
ProcessSteps(results, steps, i) ==
  IF i > Len(steps) THEN results
  ELSE ProcessSteps(UNION { ProcessStep(result, steps[i]) : result \in results }, steps, i + 1)

Process(values, load_fields, steps) ==
  ProcessSteps({ [values |-> values, fields_to_print |-> SeqElements(load_fields)] }, steps, 1)

FtAggregateParsed(args, params) ==
  IF HasValue(SendErrorIfOccurred(params))
    THEN QError("FT.AGGREGATE", args, ValueOf(SendErrorIfOccurred(params)))
    ELSE IF ~SearchAlgorithmInit(params.val.query)
      THEN QError("FT.AGGREGATE", args, << "Query syntax error" >>)
      ELSE QDispatch("FT.AGGREGATE", args, Some(params.val), [s \in Shards |-> << >>], FALSE)

\* "const auto params = ParseAggregatorParams(&parser)" for each argument
\* vector the connection may send
AggregateParsed == [args \in AggregateArgs |-> ParseAggregatorParams(CmdArgParser(args))]

\* FtAggregate up to ScheduleSingleHop
FtAggregate ==
  /\ qpc # "hop"
  /\ \E args \in AggregateArgs : FtAggregateParsed(args, AggregateParsed[args])

\* the closure of FtAggregate on shard s
FtAggregateHop(s) ==
  /\ QRunsOn("FT.AGGREGATE", s)
  /\ IF HasValue(GetIndex(indices[s], ValueOf(qlocals).index))
       THEN \E rows \in AggregatorRows(s) : qslots' = [qslots EXCEPT ![s] = rows]
       ELSE UNCHANGED qslots
  /\ UNCHANGED << qnotfound, synonyms, syn_ok >>

\* the rows of the shards from s on, in shard order
RECURSIVE AggregateValues(_, _)
AggregateValues(query_results, s) ==
  IF s >= NumShards THEN << >>
  ELSE query_results[s] \o AggregateValues(query_results, s + 1)

AggregateLoadFields(params) ==
  IF HasValue(params.load_fields)
    THEN [i \in 1 .. Len(ValueOf(params.load_fields)) |->
            OutputName(ValueOf(params.load_fields)[i])]
    ELSE << >>

\* one row of the reply: the fields to print that the row holds
AggregateRow(value, fields_to_print) ==
  [type |-> "fields",
   len |-> Cardinality(fields_to_print \cap DOMAIN value) * 2,
   v |-> [f \in fields_to_print \cap DOMAIN value |-> value[f]]]

AggregateReply(agg_results) ==
  << StartArray(Len(agg_results.values) + 1), SendLong(Len(agg_results.values)) >>
    \o [i \in 1 .. Len(agg_results.values) |->
          AggregateRow(agg_results.values[i], agg_results.fields_to_print)]

\* after the hop: the pipeline over the rows of all shards and the reply
FtAggregateReply ==
  /\ QHopOver("FT.AGGREGATE")
  /\ UNCHANGED syn_ok
  /\ \E agg_results \in Process(AggregateValues(qslots, 0),
                                AggregateLoadFields(ValueOf(qlocals)),
                                ValueOf(qlocals).steps) :
       QReplies("FT.AGGREGATE", AggregateReply(agg_results))

\* ---- FT.SYNUPDATE ----
GroupIds == { "2", "10" }
Terms == { "x", "y" }
SynUpdateTails ==
  { << "x" >>, << "y" >>, << "x", "y" >>, << "SKIPINITIALSCAN" >>,
    << "SKIPINITIALSCAN", "y" >> }
SynUpdateArgs ==
  { << n, g >> \o t : n \in IndexNames, g \in GroupIds, t \in SynUpdateTails }

\* "Collect terms"
RECURSIVE CollectTerms(_, _)
CollectTerms(p, terms) ==
  IF HasNext(p) THEN CollectTerms(Next(p).p, Append(terms, Next(p).v))
  ELSE [p |-> p, v |-> terms]

\* CmdArgParser::Finalize
Finalize(p) == ~HasNext(p) /\ ~HasError(p)

FtSynUpdateParsed_NoTermsCheck(args, group_id, terms) ==
  IF ~Finalize(terms.p)
    THEN QError("FT.SYNUPDATE", args, MakeReply(terms.p.err))
    ELSE QDispatch("FT.SYNUPDATE", args, Some([group_id |-> group_id, terms |-> terms.v]),
                   [s \in Shards |-> Nullopt], TRUE)
FtSynUpdateParsed(args, group_id, terms) ==
  IF terms.v = << >>
    THEN QError("FT.SYNUPDATE", args, << "No terms specified" >>)
    ELSE IF ~Finalize(terms.p)
      THEN QError("FT.SYNUPDATE", args, MakeReply(terms.p.err))
      ELSE QDispatch("FT.SYNUPDATE", args, Some([group_id |-> group_id, terms |-> terms.v]),
                     [s \in Shards |-> Nullopt], TRUE)

\* FtSynUpdate up to Execute
FtSynUpdate ==
  /\ qpc # "hop"
  /\ \E args \in SynUpdateArgs :
       FtSynUpdateParsed(args, NextPair(CmdArgParser(args)).v[2],
                         CollectTerms(Check(NextPair(CmdArgParser(args)).p,
                                            "SKIPINITIALSCAN").p, << >>))

\* ShardDocIndex::RebuildForGroup (server/search/doc_index.h): the group is
\* replaced, or created, with the terms given
RebuildForGroup(groups, group_id, terms) == MapSet(groups, group_id, SeqElements(terms))

\* the closure of FtSynUpdate on shard s
FtSynUpdateHop_FirstShardOnly(s) ==
  /\ QRunsOn("FT.SYNUPDATE", s)
  /\ IF HasValue(GetIndex(indices[s], qargs[1]))
       THEN /\ qnotfound' = FALSE
            /\ synonyms' =
                 IF s = 0
                   THEN [synonyms EXCEPT ![s][qargs[1]] =
                           RebuildForGroup(@, ValueOf(qlocals).group_id, ValueOf(qlocals).terms)]
                   ELSE synonyms
       ELSE UNCHANGED << qnotfound, synonyms >>
  /\ UNCHANGED << qslots, syn_ok >>
FtSynUpdateHop(s) ==
  /\ QRunsOn("FT.SYNUPDATE", s)
  /\ IF HasValue(GetIndex(indices[s], qargs[1]))
       THEN /\ qnotfound' = FALSE
            /\ synonyms' = [synonyms EXCEPT ![s][qargs[1]] =
                              RebuildForGroup(@, ValueOf(qlocals).group_id,
                                              ValueOf(qlocals).terms)]
       ELSE UNCHANGED << qnotfound, synonyms >>
  /\ UNCHANGED << qslots, syn_ok >>

\* after the hop: no such index, or OK
FtSynUpdateReply ==
  /\ QHopOver("FT.SYNUPDATE")
  /\ IF qnotfound
       THEN /\ QReplies("FT.SYNUPDATE", << ErrorReply(<< qargs[1], ": no such index" >>) >>)
            /\ UNCHANGED syn_ok
       ELSE /\ QReplies("FT.SYNUPDATE", << OkReply >>)
            /\ syn_ok' = [syn_ok EXCEPT ![qargs[1]] =
                            MapSet(@, ValueOf(qlocals).group_id, ValueOf(qlocals).terms)]

\* ---- FT.SYNDUMP ----
\* FtSynDump up to Execute
FtSynDump ==
  /\ qpc # "hop"
  /\ \E args \in NameArgs :
       QDispatch("FT.SYNDUMP", args, Nullopt, [s \in Shards |-> EmptyMap], TRUE)

\* "Build term -> group_ids mapping for this shard"
TermGroups(groups) ==
  [term \in UNION { groups[g] : g \in DOMAIN groups } |->
     { g \in DOMAIN groups : term \in groups[g] }]

\* the closure of FtSynDump on shard s
FtSynDumpHop(s) ==
  /\ QRunsOn("FT.SYNDUMP", s)
  /\ IF HasValue(GetIndex(indices[s], qargs[1]))
       THEN /\ qnotfound' = FALSE
            /\ qslots' = [qslots EXCEPT ![s] = TermGroups(synonyms[s][qargs[1]])]
       ELSE UNCHANGED << qnotfound, qslots >>
  /\ UNCHANGED << synonyms, syn_ok >>

\* "Merge data from all shards into a single map"
MergeTermGroups(shard_term_groups) ==
  [term \in UNION { DOMAIN shard_term_groups[s] : s \in Shards } |->
     UNION { shard_term_groups[s][term] :
               s \in { x \in Shards : term \in DOMAIN shard_term_groups[x] } }]

\* operator< of std::string on the group ids of the model: the place of each
\* in lexicographic order
LexOrder == << "10", "2" >>
StringLess(a, b) ==
  (CHOOSE i \in 1 .. Len(LexOrder) : LexOrder[i] = a)
    < (CHOOSE i \in 1 .. Len(LexOrder) : LexOrder[i] = b)

\* std::sort of the ids of a set
SortedIds_Descending(group_ids) ==
  CHOOSE ids \in [1 .. Cardinality(group_ids) -> group_ids] :
    /\ SeqElements(ids) = group_ids
    /\ \A i, j \in 1 .. Len(ids) : i < j => StringLess(ids[j], ids[i])
SortedIds(group_ids) ==
  CHOOSE ids \in [1 .. Cardinality(group_ids) -> group_ids] :
    /\ SeqElements(ids) = group_ids
    /\ \A i, j \in 1 .. Len(ids) : i < j => StringLess(ids[i], ids[j])

\* one term of the reply and the array of its group ids
SynDumpEntry(term, group_ids) ==
  << SendBulkString(term), StartArray(Cardinality(group_ids)) >>
    \o [i \in 1 .. Cardinality(group_ids) |-> SendBulkString(SortedIds(group_ids)[i])]

RECURSIVE SynDumpEntries(_, _, _)
SynDumpEntries(merged_term_groups, order, i) ==
  IF i > Len(order) THEN << >>
  ELSE SynDumpEntry(order[i], merged_term_groups[order[i]])
         \o SynDumpEntries(merged_term_groups, order, i + 1)

\* the orders in which the hash map may hand out its terms
TermOrders(merged_term_groups) ==
  { order \in [1 .. Cardinality(DOMAIN merged_term_groups) -> DOMAIN merged_term_groups] :
      SeqElements(order) = DOMAIN merged_term_groups }

\* after the hop: unknown index, or the merged terms with their sorted ids
FtSynDumpReply ==
  /\ QHopOver("FT.SYNDUMP")
  /\ UNCHANGED syn_ok
  /\ IF qnotfound
       THEN QReplies("FT.SYNDUMP", << ErrorReply(<< "Unknown index name" >>) >>)
       ELSE \E order \in TermOrders(MergeTermGroups(qslots)) :
              QReplies("FT.SYNDUMP",
                       << StartArray(Cardinality(DOMAIN MergeTermGroups(qslots)) * 2) >>
                         \o SynDumpEntries(MergeTermGroups(qslots), order, 1))

\* no command has been handled yet and no synonym group exists
QueryIdle ==
  /\ qverb = ""
  /\ qargs = << >>
  /\ qpc = "idle"
  /\ qpending = { }
  /\ qlocals = Nullopt
  /\ qslots = [s \in Shards |-> Nullopt]
  /\ qnotfound = FALSE
  /\ qreplies = << >>
  /\ dispatched = 0
  /\ synonyms = [s \in Shards |-> [n \in IndexNames |-> EmptyMap]]
  /\ syn_ok = [n \in IndexNames |-> EmptyMap]

RegIdle == RegInit
ParseIdle == sargs = << >> /\ sresult = Nullopt /\ sparser = ""
ReplyIdle ==
  /\ rparams = DefaultSearchParams
  /\ rknn = Nullopt
  /\ rresults = [s \in Shards |-> SearchResult(0, << >>)]
  /\ rout = Nullopt

vars == << regVars, parseVars, replyVars, searchVars, queryVars >>

\* ---- clients sending FT.CREATE, FT.ALTER, FT.DROPINDEX and FT.INFO ----
Init == RegInit /\ ParseIdle /\ ReplyIdle /\ SearchIdle /\ QueryIdle

NextRegistry ==
  \/ \E c \in Clients : FtCreate(c) /\ UNCHANGED << parseVars, replyVars, searchVars, queryVars >>
  \/ \E c \in Clients, s \in Shards :
       FtCreateExists(c, s) /\ UNCHANGED << parseVars, replyVars, searchVars, queryVars >>
  \/ \E c \in Clients : FtCreateChecked(c) /\ UNCHANGED << parseVars, replyVars, searchVars, queryVars >>
  \/ \E c \in Clients, s \in Shards :
       FtCreateInit(c, s) /\ UNCHANGED << parseVars, replyVars, searchVars, queryVars >>
  \/ \E c \in Clients : FtCreateDone(c) /\ UNCHANGED << parseVars, replyVars, searchVars, queryVars >>
  \/ \E c \in Clients : FtAlter(c) /\ UNCHANGED << parseVars, replyVars, searchVars, queryVars >>
  \/ \E c \in Clients, s \in Shards :
       FtAlterFetch(c, s) /\ UNCHANGED << parseVars, replyVars, searchVars, queryVars >>
  \/ \E c \in Clients : FtAlterMerge(c) /\ UNCHANGED << parseVars, replyVars, searchVars, queryVars >>
  \/ \E c \in Clients, s \in Shards :
       FtAlterUpdate(c, s) /\ UNCHANGED << parseVars, replyVars, searchVars, queryVars >>
  \/ \E c \in Clients : FtAlterDone(c) /\ UNCHANGED << parseVars, replyVars, searchVars, queryVars >>
  \/ \E c \in Clients : FtDropIndex(c) /\ UNCHANGED << parseVars, replyVars, searchVars, queryVars >>
  \/ \E c \in Clients, s \in Shards :
       FtDropIndexHop(c, s) /\ UNCHANGED << parseVars, replyVars, searchVars, queryVars >>
  \/ \E c \in Clients : FtDropIndexDone(c) /\ UNCHANGED << parseVars, replyVars, searchVars, queryVars >>
  \/ \E c \in Clients : FtInfo(c) /\ UNCHANGED << parseVars, replyVars, searchVars, queryVars >>
  \/ \E c \in Clients, s \in Shards :
       FtInfoHop(c, s) /\ UNCHANGED << parseVars, replyVars, searchVars, queryVars >>
  \/ \E c \in Clients : FtInfoDone(c) /\ UNCHANGED << parseVars, replyVars, searchVars, queryVars >>

Spec == Init /\ [][NextRegistry]_vars

\* ---- clients creating, dropping and listing indices ----
InitList == RegInit /\ ParseIdle /\ ReplyIdle /\ SearchIdle /\ QueryIdle
NextList ==
  \/ \E c \in Clients : FtCreate(c) /\ UNCHANGED << parseVars, replyVars, searchVars, queryVars >>
  \/ \E c \in Clients, s \in Shards :
       FtCreateExists(c, s) /\ UNCHANGED << parseVars, replyVars, searchVars, queryVars >>
  \/ \E c \in Clients : FtCreateChecked(c) /\ UNCHANGED << parseVars, replyVars, searchVars, queryVars >>
  \/ \E c \in Clients, s \in Shards :
       FtCreateInit(c, s) /\ UNCHANGED << parseVars, replyVars, searchVars, queryVars >>
  \/ \E c \in Clients : FtCreateDone(c) /\ UNCHANGED << parseVars, replyVars, searchVars, queryVars >>
  \/ \E c \in Clients : FtDropIndex(c) /\ UNCHANGED << parseVars, replyVars, searchVars, queryVars >>
  \/ \E c \in Clients, s \in Shards :
       FtDropIndexHop(c, s) /\ UNCHANGED << parseVars, replyVars, searchVars, queryVars >>
  \/ \E c \in Clients : FtDropIndexDone(c) /\ UNCHANGED << parseVars, replyVars, searchVars, queryVars >>
  \/ \E c \in Clients : FtList(c) /\ UNCHANGED << parseVars, replyVars, searchVars, queryVars >>
  \/ \E c \in Clients, s \in Shards :
       FtListFirst(c, s) /\ UNCHANGED << parseVars, replyVars, searchVars, queryVars >>
  \/ \E c \in Clients, s \in Shards :
       FtListAssign(c, s) /\ UNCHANGED << parseVars, replyVars, searchVars, queryVars >>
  \/ \E c \in Clients : FtListDone(c) /\ UNCHANGED << parseVars, replyVars, searchVars, queryVars >>
SpecList == InitList /\ [][NextList]_vars

\* ---- ParseSearchParams on any argument vector ----
InitParse == ParseInit /\ RegIdle /\ ReplyIdle /\ SearchIdle /\ QueryIdle
NextParse == CallParseSearchParams /\ UNCHANGED << regVars, replyVars, searchVars, queryVars >>
SpecParse == InitParse /\ [][NextParse]_vars

\* ---- the three clause parsers on vectors with tokens that are no clause ----
InitClauses == ClausesInit /\ RegIdle /\ ReplyIdle /\ SearchIdle /\ QueryIdle
NextClauses ==
  \/ CallParseSearchParams /\ UNCHANGED << regVars, replyVars, searchVars, queryVars >>
  \/ CallParseCreateParams /\ UNCHANGED << regVars, replyVars, searchVars, queryVars >>
  \/ CallParseAggregatorParams /\ UNCHANGED << regVars, replyVars, searchVars, queryVars >>
SpecClauses == InitClauses /\ [][NextClauses]_vars

\* ---- ParseAggregatorParams on one REDUCE clause ----
InitReduce == ReduceInit /\ RegIdle /\ ReplyIdle /\ SearchIdle /\ QueryIdle
NextReduce ==
  CallParseAggregatorParams /\ UNCHANGED << regVars, replyVars, searchVars, queryVars >>
SpecReduce == InitReduce /\ [][NextReduce]_vars

\* ---- ParseVector on any parameters ----
InitVector == VectorInit /\ RegIdle /\ ReplyIdle /\ SearchIdle /\ QueryIdle
NextVector == CallParseVector /\ UNCHANGED << regVars, replyVars, searchVars, queryVars >>
SpecVector == InitVector /\ [][NextVector]_vars

\* ---- the tree of FT.PROFILE on any list of events ----
InitTree == TreeInit /\ RegIdle /\ ReplyIdle /\ SearchIdle /\ QueryIdle
NextTree == CallProfileTree /\ UNCHANGED << regVars, replyVars, searchVars, queryVars >>
SpecTree == InitTree /\ [][NextTree]_vars

\* ---- the loops that a count in the arguments governs ----
InitCounts == CountsInit /\ RegIdle /\ ReplyIdle /\ SearchIdle /\ QueryIdle
NextCounts ==
  \/ CallParseVectorParams /\ UNCHANGED << regVars, replyVars, searchVars, queryVars >>
  \/ CallParseStopwords /\ UNCHANGED << regVars, replyVars, searchVars, queryVars >>
  \/ CallParseLoadOrReturnFields /\ UNCHANGED << regVars, replyVars, searchVars, queryVars >>
  \/ CallParseQueryParams /\ UNCHANGED << regVars, replyVars, searchVars, queryVars >>
SpecCounts == InitCounts /\ [][NextCounts]_vars

\* ---- ParseSearchParams on a PARAMS clause and what follows it ----
InitQueryParams == QueryParamsInit /\ RegIdle /\ ReplyIdle /\ SearchIdle /\ QueryIdle
NextQueryParams ==
  CallParseSearchParams /\ UNCHANGED << regVars, replyVars, searchVars, queryVars >>
SpecQueryParams == InitQueryParams /\ [][NextQueryParams]_vars

\* ---- ParseAggregatorSortParams on any argument vector ----
InitSortBy == SortByInit /\ RegIdle /\ ReplyIdle /\ SearchIdle /\ QueryIdle
NextSortBy ==
  CallParseAggregatorSortParams /\ UNCHANGED << regVars, replyVars, searchVars, queryVars >>
SpecSortBy == InitSortBy /\ [][NextSortBy]_vars

\* ---- SearchReply on any results ----
InitReply == ReplyInit /\ RegIdle /\ ParseIdle /\ SearchIdle /\ QueryIdle
NextReply == CallSearchReply /\ UNCHANGED << regVars, parseVars, searchVars, queryVars >>
SpecReply == InitReply /\ [][NextReply]_vars

\* ---- FT.SEARCH on any registry and shard results ----
InitSearch == SearchInit /\ SearchRegInit /\ ParseIdle /\ ReplyIdle /\ QueryIdle
NextSearch ==
  \/ FtSearch /\ UNCHANGED << regVars, parseVars, replyVars, queryVars >>
  \/ \E s \in Shards : FtSearchHop(s) /\ UNCHANGED << regVars, parseVars, replyVars, queryVars >>
  \/ FtSearchReply /\ UNCHANGED << regVars, parseVars, replyVars, queryVars >>
SpecSearch == InitSearch /\ [][NextSearch]_vars

\* the registry part of the state a query command starts in, the registry
\* being one of registries
RegGiven(registries) ==
  /\ indices \in registries
  /\ tx_owner = 0
  /\ pc = [c \in Clients |-> "idle"]
  /\ cmd = [c \in Clients |-> NoCommand]
  /\ pending = [c \in Clients |-> { }]
  /\ frame = [c \in Clients |-> IdleFrame]
  /\ last_reply = Nullopt
  /\ tx_start = indices
  /\ created_ok = [n \in IndexNames |-> IF HasValue(indices[0][n]) THEN 1 ELSE 0]

\* no command has been started: neither the FT.SEARCH the run may start
\* with, nor one of a client, nor FT.PROFILE .. FT.SYNUPDATE
Fresh ==
  /\ fargs = << >>
  /\ qpc = "idle"
  /\ last_reply = Nullopt
  /\ \A c \in Clients : pc[c] = "idle"

\* ---- FT.SEARCH or FT.PROFILE where "idx" is held by any set of shards ----
PartialRegistries ==
  { [s \in Shards |->
       IF s \in holders
         THEN InitIndex([n \in IndexNames |-> Nullopt], "idx", CreatedIndex)
         ELSE [n \in IndexNames |-> Nullopt]] : holders \in SUBSET Shards }

InitPartial ==
  /\ SearchInit \/ SearchIdle
  /\ RegGiven(PartialRegistries)
  /\ ParseIdle /\ ReplyIdle /\ QueryIdle
NextPartial ==
  \/ FtSearch /\ UNCHANGED << regVars, parseVars, replyVars, queryVars >>
  \/ \E s \in Shards : FtSearchHop(s) /\ UNCHANGED << regVars, parseVars, replyVars, queryVars >>
  \/ FtSearchReply /\ UNCHANGED << regVars, parseVars, replyVars, queryVars >>
  \/ Fresh /\ FtProfile /\ UNCHANGED << regVars, parseVars, replyVars, searchVars >>
  \/ \E s \in Shards : FtProfileHop(s) /\ UNCHANGED << regVars, parseVars, replyVars, searchVars >>
  \/ FtProfileReply /\ UNCHANGED << regVars, parseVars, replyVars, searchVars >>
SpecPartial == InitPartial /\ [][NextPartial]_vars

\* ---- one command, of any kind, on a registry without or with "idx" ----
\* the variables of FT.PROFILE .. FT.SYNUPDATE but the count of dispatches
queryLocals ==
  << qverb, qargs, qpc, qpending, qlocals, qslots, qnotfound, qreplies, synonyms, syn_ok >>

\* a step of FT.SEARCH: the count goes up when it calls ScheduleSingleHop
SearchStep ==
  /\ dispatched' = IF fpc = "start" /\ fpc' = "hop" THEN dispatched + 1 ELSE dispatched
  /\ UNCHANGED << regVars, parseVars, replyVars, queryLocals >>

\* a step of the handler of client c: the count goes up when it calls Execute
ClientStep(c) ==
  /\ dispatched' = IF pc'[c] \notin { "idle", pc[c] } THEN dispatched + 1 ELSE dispatched
  /\ UNCHANGED << parseVars, replyVars, searchVars, queryLocals >>

QueryStep == UNCHANGED << regVars, parseVars, replyVars, searchVars >>

InitOnce ==
  /\ SearchInit \/ SearchIdle
  /\ RegGiven(SearchRegistries)
  /\ ParseIdle /\ ReplyIdle /\ QueryIdle
NextOnce ==
  \/ FtSearch /\ SearchStep
  \/ \E s \in Shards : FtSearchHop(s) /\ SearchStep
  \/ FtSearchReply /\ SearchStep
  \/ \E c \in Clients : Fresh /\ FtCreate(c) /\ ClientStep(c)
  \/ \E c \in Clients, s \in Shards : FtCreateExists(c, s) /\ ClientStep(c)
  \/ \E c \in Clients : FtCreateChecked(c) /\ ClientStep(c)
  \/ \E c \in Clients, s \in Shards : FtCreateInit(c, s) /\ ClientStep(c)
  \/ \E c \in Clients : FtCreateDone(c) /\ ClientStep(c)
  \/ \E c \in Clients : Fresh /\ FtAlter(c) /\ ClientStep(c)
  \/ \E c \in Clients, s \in Shards : FtAlterFetch(c, s) /\ ClientStep(c)
  \/ \E c \in Clients : FtAlterMerge(c) /\ ClientStep(c)
  \/ \E c \in Clients, s \in Shards : FtAlterUpdate(c, s) /\ ClientStep(c)
  \/ \E c \in Clients : FtAlterDone(c) /\ ClientStep(c)
  \/ Fresh /\ FtProfile /\ QueryStep
  \/ \E s \in Shards : FtProfileHop(s) /\ QueryStep
  \/ FtProfileReply /\ QueryStep
  \/ Fresh /\ FtAggregate /\ QueryStep
  \/ \E s \in Shards : FtAggregateHop(s) /\ QueryStep
  \/ FtAggregateReply /\ QueryStep
  \/ Fresh /\ FtTagVals /\ QueryStep
  \/ \E s \in Shards : FtTagValsHop(s) /\ QueryStep
  \/ FtTagValsReply /\ QueryStep
  \/ Fresh /\ FtSynDump /\ QueryStep
  \/ \E s \in Shards : FtSynDumpHop(s) /\ QueryStep
  \/ FtSynDumpReply /\ QueryStep
  \/ Fresh /\ FtSynUpdate /\ QueryStep
  \/ \E s \in Shards : FtSynUpdateHop(s) /\ QueryStep
  \/ FtSynUpdateReply /\ QueryStep
SpecOnce == InitOnce /\ [][NextOnce]_vars

\* ---- one command of any kind that fans out, on a registry without or with "idx" ----
InitFanOut ==
  /\ SearchInit \/ SearchIdle
  /\ RegGiven(SearchRegistries)
  /\ ParseIdle /\ ReplyIdle /\ QueryIdle
NextFanOut ==
  \/ FtSearch /\ SearchStep
  \/ \E s \in Shards : FtSearchHop(s) /\ SearchStep
  \/ FtSearchReply /\ SearchStep
  \/ \E c \in Clients : Fresh /\ FtCreate(c) /\ ClientStep(c)
  \/ \E c \in Clients, s \in Shards : FtCreateExists(c, s) /\ ClientStep(c)
  \/ \E c \in Clients : FtCreateChecked(c) /\ ClientStep(c)
  \/ \E c \in Clients, s \in Shards : FtCreateInit(c, s) /\ ClientStep(c)
  \/ \E c \in Clients : FtCreateDone(c) /\ ClientStep(c)
  \/ \E c \in Clients : Fresh /\ FtAlter(c) /\ ClientStep(c)
  \/ \E c \in Clients, s \in Shards : FtAlterFetch(c, s) /\ ClientStep(c)
  \/ \E c \in Clients : FtAlterMerge(c) /\ ClientStep(c)
  \/ \E c \in Clients, s \in Shards : FtAlterUpdate(c, s) /\ ClientStep(c)
  \/ \E c \in Clients : FtAlterDone(c) /\ ClientStep(c)
  \/ \E c \in Clients : Fresh /\ FtDropIndex(c) /\ ClientStep(c)
  \/ \E c \in Clients, s \in Shards : FtDropIndexHop(c, s) /\ ClientStep(c)
  \/ \E c \in Clients : FtDropIndexDone(c) /\ ClientStep(c)
  \/ \E c \in Clients : Fresh /\ FtInfo(c) /\ ClientStep(c)
  \/ \E c \in Clients, s \in Shards : FtInfoHop(c, s) /\ ClientStep(c)
  \/ \E c \in Clients : FtInfoDone(c) /\ ClientStep(c)
  \/ Fresh /\ FtProfile /\ QueryStep
  \/ \E s \in Shards : FtProfileHop(s) /\ QueryStep
  \/ FtProfileReply /\ QueryStep
  \/ Fresh /\ FtAggregate /\ QueryStep
  \/ \E s \in Shards : FtAggregateHop(s) /\ QueryStep
  \/ FtAggregateReply /\ QueryStep
  \/ Fresh /\ FtTagVals /\ QueryStep
  \/ \E s \in Shards : FtTagValsHop(s) /\ QueryStep
  \/ FtTagValsReply /\ QueryStep
  \/ Fresh /\ FtSynDump /\ QueryStep
  \/ \E s \in Shards : FtSynDumpHop(s) /\ QueryStep
  \/ FtSynDumpReply /\ QueryStep
  \/ Fresh /\ FtSynUpdate /\ QueryStep
  \/ \E s \in Shards : FtSynUpdateHop(s) /\ QueryStep
  \/ FtSynUpdateReply /\ QueryStep
SpecFanOut == InitFanOut /\ [][NextFanOut]_vars

\* ---- the commands whose reply merges what the shards return: one FT.SEARCH,
\* or one of FT.CREATE, FT.DROPINDEX and FT.INFO followed by any of
\* FT.TAGVALS, FT.SYNUPDATE and FT.SYNDUMP, one after the other ----
NoneRuns == fargs = << >> /\ \A c \in Clients : pc[c] = "idle"

InitOrder ==
  /\ SearchInit \/ SearchIdle
  /\ RegGiven(SearchRegistries)
  /\ ParseIdle /\ ReplyIdle /\ QueryIdle
NextOrder ==
  \/ FtSearch /\ SearchStep
  \/ \E s \in Shards : FtSearchHop(s) /\ SearchStep
  \/ FtSearchReply /\ SearchStep
  \/ \E c \in Clients : Fresh /\ FtCreate(c) /\ ClientStep(c)
  \/ \E c \in Clients, s \in Shards : FtCreateExists(c, s) /\ ClientStep(c)
  \/ \E c \in Clients : FtCreateChecked(c) /\ ClientStep(c)
  \/ \E c \in Clients, s \in Shards : FtCreateInit(c, s) /\ ClientStep(c)
  \/ \E c \in Clients : FtCreateDone(c) /\ ClientStep(c)
  \/ \E c \in Clients : Fresh /\ FtDropIndex(c) /\ ClientStep(c)
  \/ \E c \in Clients, s \in Shards : FtDropIndexHop(c, s) /\ ClientStep(c)
  \/ \E c \in Clients : FtDropIndexDone(c) /\ ClientStep(c)
  \/ \E c \in Clients : Fresh /\ FtInfo(c) /\ ClientStep(c)
  \/ \E c \in Clients, s \in Shards : FtInfoHop(c, s) /\ ClientStep(c)
  \/ \E c \in Clients : FtInfoDone(c) /\ ClientStep(c)
  \/ NoneRuns /\ FtTagVals /\ QueryStep
  \/ \E s \in Shards : FtTagValsHop(s) /\ QueryStep
  \/ FtTagValsReply /\ QueryStep
  \/ NoneRuns /\ FtSynUpdate /\ QueryStep
  \/ \E s \in Shards : FtSynUpdateHop(s) /\ QueryStep
  \/ FtSynUpdateReply /\ QueryStep
  \/ NoneRuns /\ FtSynDump /\ QueryStep
  \/ \E s \in Shards : FtSynDumpHop(s) /\ QueryStep
  \/ FtSynDumpReply /\ QueryStep
SpecOrder == InitOrder /\ [][NextOrder]_vars

\* ---- one connection defining, extending, dropping and describing schemas ----
InitSchema == RegInit /\ ParseIdle /\ ReplyIdle /\ SearchIdle /\ QueryIdle
NextSchema ==
  \/ FtCreateOf(1, SchemaCreateArgs) /\ UNCHANGED << parseVars, replyVars, searchVars, queryVars >>
  \/ \E s \in Shards : FtCreateExists(1, s) /\ UNCHANGED << parseVars, replyVars, searchVars, queryVars >>
  \/ FtCreateChecked(1) /\ UNCHANGED << parseVars, replyVars, searchVars, queryVars >>
  \/ \E s \in Shards : FtCreateInit(1, s) /\ UNCHANGED << parseVars, replyVars, searchVars, queryVars >>
  \/ FtCreateDone(1) /\ UNCHANGED << parseVars, replyVars, searchVars, queryVars >>
  \/ FtAlterOf(1, SchemaAlterArgs) /\ UNCHANGED << parseVars, replyVars, searchVars, queryVars >>
  \/ \E s \in Shards : FtAlterFetch(1, s) /\ UNCHANGED << parseVars, replyVars, searchVars, queryVars >>
  \/ FtAlterMerge(1) /\ UNCHANGED << parseVars, replyVars, searchVars, queryVars >>
  \/ \E s \in Shards : FtAlterUpdate(1, s) /\ UNCHANGED << parseVars, replyVars, searchVars, queryVars >>
  \/ FtAlterDone(1) /\ UNCHANGED << parseVars, replyVars, searchVars, queryVars >>
  \/ FtDropIndex(1) /\ UNCHANGED << parseVars, replyVars, searchVars, queryVars >>
  \/ \E s \in Shards : FtDropIndexHop(1, s) /\ UNCHANGED << parseVars, replyVars, searchVars, queryVars >>
  \/ FtDropIndexDone(1) /\ UNCHANGED << parseVars, replyVars, searchVars, queryVars >>
  \/ FtInfo(1) /\ UNCHANGED << parseVars, replyVars, searchVars, queryVars >>
  \/ \E s \in Shards : FtInfoHop(1, s) /\ UNCHANGED << parseVars, replyVars, searchVars, queryVars >>
  \/ FtInfoDone(1) /\ UNCHANGED << parseVars, replyVars, searchVars, queryVars >>
SpecSchema == InitSchema /\ [][NextSchema]_vars

\* ---- FT.SYNUPDATE and FT.SYNDUMP, one after the other in any order ----
InitSyn ==
  /\ RegGiven(SearchRegistries)
  /\ SearchIdle /\ ParseIdle /\ ReplyIdle /\ QueryIdle
NextSyn ==
  \/ FtSynUpdate /\ QueryStep
  \/ \E s \in Shards : FtSynUpdateHop(s) /\ QueryStep
  \/ FtSynUpdateReply /\ QueryStep
  \/ FtSynDump /\ QueryStep
  \/ \E s \in Shards : FtSynDumpHop(s) /\ QueryStep
  \/ FtSynDumpReply /\ QueryStep
SpecSyn == InitSyn /\ [][NextSyn]_vars

(***************************************************************************)
(* Properties of the index registry                                        *)
(***************************************************************************)
HoldersOf(name) == { s \in Shards : HasValue(indices[s][name]) }
HeldAtStart(name) == { s \in Shards : HasValue(tx_start[s][name]) }
AlreadyExists == ErrorReply(<< "Index already exists" >>)

\* the command that returned last is verb and sent exactly reply
LastIs(verb, reply) ==
  /\ HasValue(last_reply)
  /\ ValueOf(last_reply).verb = verb
  /\ ValueOf(last_reply).replies = << reply >>
LastName == ValueOf(last_reply).args[1]

\* the definition FT.CREATE args asks for
RequestedIndex(args) == ParseCreateParams(Next(CmdArgParser(args)).p).val

\* the definition FT.ALTER args makes of the definition old
AlteredIndex(old, args) ==
  LET parser == ExpectTag(ExpectTag(Next(CmdArgParser(args)).p, "SCHEMA"), "ADD")
      added == ParseSchema(parser, [DefaultDocIndex EXCEPT !.type = old.type]).val
  IN [old EXCEPT !.schema = MergeSchemas(@, added.schema)]

\* C1: whenever no hop is half-way through its shards, every index name is
\* held by no shard or by all of them; and once a hop has run on every shard
\* the counters FT.CREATE (exists_cnt), FT.DROPINDEX (num_deleted) and FT.INFO
\* (num_notfound) check are 0 or the number of shards.
ShardCountInvariant ==
  /\ (\A c \in Clients : pending[c] \in { { }, Shards })
       => \A n \in IndexNames : Cardinality(HoldersOf(n)) \in { 0, NumShards }
  /\ \A c \in Clients :
       pending[c] = { } =>
         /\ frame[c].exists_cnt \in { 0, NumShards }
         /\ frame[c].num_deleted \in { 0, NumShards }
         /\ frame[c].num_notfound \in { 0, NumShards }

\* FT.DROPINDEX has counted the name on every shard while the other name is
\* still held by every shard
ShardCountWitness ==
  \E c \in Clients :
    /\ pc[c] = "drop"
    /\ pending[c] = { }
    /\ frame[c].num_deleted = NumShards
    /\ \E n \in IndexNames : n # IdxName(c) /\ HoldersOf(n) = Shards

\* C2: between transactions every shard holds the same definition of a name
\* that is present; after an FT.CREATE that replied OK it is the definition
\* the command asked for, and after an FT.ALTER that replied OK it is the one
\* merged from the copy shard 0 held when the command started.
SameDefinitionOnEveryShard ==
  /\ tx_owner = 0 =>
       \A n \in IndexNames :
         HoldersOf(n) # { } => \A s, t \in Shards : indices[s][n] = indices[t][n]
  /\ LastIs("FT.CREATE", OkReply) =>
       \A s \in Shards :
         indices[s][LastName] =
           Some([base_index |-> RequestedIndex(ValueOf(last_reply).args)])
  /\ LastIs("FT.ALTER", OkReply) =>
       \A s \in Shards :
         indices[s][LastName] =
           Some([base_index |-> AlteredIndex(ValueOf(tx_start[0][LastName]).base_index,
                                             ValueOf(last_reply).args)])

\* an FT.ALTER replied OK and every shard holds a definition with a field
\* more than the one the command found
SameDefinitionWitness ==
  /\ LastIs("FT.ALTER", OkReply)
  /\ \A s \in Shards :
       /\ HasValue(indices[s][LastName])
       /\ DOMAIN ValueOf(indices[s][LastName]).base_index.schema.fields
            # DOMAIN ValueOf(tx_start[0][LastName]).base_index.schema.fields

\* C3: the read phase of FT.CREATE writes nothing; the write phase is entered
\* only with exists_cnt = 0 for a name no shard held when the command
\* started; and an FT.CREATE of a name that was held replies "Index already
\* exists", ends its transaction once and leaves every shard's registry as it
\* was.
CreateOfExistingName ==
  /\ \A c \in Clients : pc[c] = "create_exists" => indices = tx_start
  /\ \A c \in Clients :
       pc[c] = "create_init" =>
         /\ frame[c].exists_cnt = 0
         /\ HeldAtStart(IdxName(c)) = { }
  /\ ( /\ HasValue(last_reply)
       /\ ValueOf(last_reply).verb = "FT.CREATE"
       /\ ValueOf(last_reply).tx_ends > 0
       /\ HeldAtStart(LastName) # { } )
       => /\ ValueOf(last_reply).replies = << AlreadyExists >>
          /\ ValueOf(last_reply).tx_ends = 1
          /\ indices = tx_start

\* an FT.CREATE of a name every shard holds has replied "Index already exists"
CreateOfExistingNameWitness ==
  /\ LastIs("FT.CREATE", AlreadyExists)
  /\ HoldersOf(LastName) = Shards
  /\ indices = tx_start

\* C4: of the FT.CREATE commands of a name, at most one replies OK until an
\* FT.DROPINDEX removes the name; between transactions the name is held
\* exactly when one has; and an FT.CREATE replies OK only for a name no shard
\* held when its transaction was scheduled, so no FT.CREATE replaces a
\* definition.
CreateOnce ==
  /\ \A n \in IndexNames : created_ok[n] <= 1
  /\ tx_owner = 0 =>
       \A n \in IndexNames : (created_ok[n] = 1) <=> (HoldersOf(n) = Shards)
  /\ LastIs("FT.CREATE", OkReply) => HeldAtStart(LastName) = { }

\* after one FT.CREATE of the name replied OK, an FT.CREATE asking for another
\* definition replied "Index already exists" and the first definition stays
CreateOnceWitness ==
  /\ LastIs("FT.CREATE", AlreadyExists)
  /\ created_ok[LastName] = 1
  /\ \A s \in Shards :
       /\ HasValue(indices[s][LastName])
       /\ ValueOf(indices[s][LastName]).base_index # RequestedIndex(ValueOf(last_reply).args)

\* C5: every plan ParseSearchParams returns has load_fields and return_fields
\* not both present (an error result carries no plan)
LoadReturnExclusion ==
  (HasValue(sresult) /\ ValueOf(sresult).ok) =>
     ~(HasValue(ValueOf(sresult).val.load_fields) /\
       HasValue(ValueOf(sresult).val.return_fields))

(***************************************************************************)
(* Properties of SearchReply (SpecReply).                                  *)
(***************************************************************************)
\* the document a sent key names, looked up in the shard results
DocOfKey(key) == rresults[key[1]].docs[key[2]]

\* the keys of the document records sent, in order
IsBulk(item) == item.type = "bulk"
SentDocs(o) ==
  LET bulk == SelectSeq(o.sent, IsBulk)
  IN [i \in 1 .. Len(bulk) |-> DocOfKey(bulk[i].v)]

AllDocs == MergeResults(rresults).docs
Keys(docs) == { docs[i].key : i \in 1 .. Len(docs) }
Distinct(docs) == \A i, j \in 1 .. Len(docs) : i # j => docs[i].key # docs[j].key

\* kept is a choice of min(K, N) documents of all with the least knn_score
LeastByKnn(kept, all, k) ==
  /\ Len(kept) = Min(k, Len(all))
  /\ Distinct(kept)
  /\ Keys(kept) \subseteq Keys(all)
  /\ \A i \in 1 .. Len(kept) : \A j \in 1 .. Len(all) :
        all[j].key \notin Keys(kept) => kept[i].knn_score <= all[j].knn_score

\* the sort_score at rank r (from 1) of docs ordered in the given direction
Before(order, a, b) == IF order = "ASC" THEN a < b ELSE b < a
ScoreAtRank(docs, order, r) ==
  CHOOSE v \in { docs[i].sort_score : i \in 1 .. Len(docs) } :
    /\ Cardinality({ i \in 1 .. Len(docs) : Before(order, docs[i].sort_score, v) }) < r
    /\ r <= Cardinality({ i \in 1 .. Len(docs) : ~Before(order, v, docs[i].sort_score) })

ReplyWindow ==
  HasValue(rout) =>
     LET o == ValueOf(rout)
         size == Len(o.knn_docs)
         offset == Min(rparams.limit_offset, size)
         limit == Min(rparams.limit_total, size - offset)
     IN /\ ~o.out_of_range
        /\ Len(o.docs) = size
        /\ SentDocs(o) = SubSeq(o.docs, offset + 1, offset + limit)
        /\ o.declared = Len(o.sent)
        /\ o.declared = (IF IdsOnly(rparams) THEN 1 + limit ELSE 1 + 2 * limit)
        /\ rparams.limit_offset >= size =>
              o.sent = << [type |-> "long", v |-> o.total_hits] >>

\* C8 witness: a reply that starts at offset 1 and sends one record with its
\* value map
ReplyWindowWitness ==
  /\ HasValue(rout)
  /\ rparams.limit_offset = 1
  /\ ~IdsOnly(rparams)
  /\ Len(ValueOf(rout).knn_docs) = 2
  /\ Len(ValueOf(rout).sent) = 3

\* C9: with SORTBY present and not naming the KNN score alias (or without
\* KNN), the records sent are those at ranks offset+1 .. offset+limit of the
\* documents left by the KNN cut, ordered by sort_score in the requested
\* direction; with SORTBY naming the KNN score alias the KNN order is kept
SortByRanks ==
  (HasValue(rout) /\ HasValue(rparams.sort_option)) =>
     LET o == ValueOf(rout)
         sort == ValueOf(rparams.sort_option)
         kept == o.knn_docs
         offset == Min(rparams.limit_offset, Len(kept))
         limit == Min(rparams.limit_total, Len(kept) - offset)
         sent == SentDocs(o)
     IN /\ ~o.out_of_range
        /\ IF HasValue(rknn)
             THEN LeastByKnn(kept, AllDocs, ValueOf(rknn).limit)
             ELSE kept = AllDocs
        /\ Len(sent) = limit
        /\ IF ~HasValue(rknn) \/ ~IsSame(sort, ValueOf(rknn))
             THEN /\ Distinct(sent)
                  /\ Keys(sent) \subseteq Keys(kept)
                  /\ \A i \in 1 .. limit :
                        sent[i].sort_score = ScoreAtRank(kept, sort.order, offset + i)
             ELSE sent = SubSeq(kept, offset + 1, offset + limit)

\* C9 witness: SORTBY on a field other than the KNN alias, after a KNN cut
\* that dropped a document, sends from offset 1 one record, and the sort
\* changed the order the KNN cut left
SortByRanksWitness ==
  /\ HasValue(rout) /\ HasValue(rparams.sort_option)
  /\ HasValue(rknn)
  /\ ~IsSame(ValueOf(rparams.sort_option), ValueOf(rknn))
  /\ Len(AllDocs) > ValueOf(rknn).limit
  /\ rparams.limit_offset = 1
  /\ Len(SentDocs(ValueOf(rout))) = 1
  /\ ValueOf(rout).docs # ValueOf(rout).knn_docs

(***************************************************************************)
(* Properties of FT.SEARCH                                                 *)
(***************************************************************************)
ErrorSlots == { s \in Shards : HasValue(fdocs[s].error) }
LowestErrorSlot == CHOOSE s \in ErrorSlots : \A t \in ErrorSlots : s <= t

\* C10: when FT.SEARCH has replied, the index was found on every shard and
\* some shard's SearchResult holds an error, the handler has sent exactly one
\* reply, the error of the lowest-numbered shard that holds one: no total and
\* no document record.
SearchShardError ==
  (fpc = "done" /\ HasValue(fparams) /\ ~index_not_found /\ ErrorSlots # { })
    => freplies = << ErrorReply(ValueOf(fdocs[LowestErrorSlot].error)) >>

\* two shards hold different errors and the one reply sent is the lower
\* shard's
SearchShardErrorWitness ==
  /\ fpc = "done"
  /\ ~index_not_found
  /\ \E s, t \in ErrorSlots : s < t /\ fdocs[s].error # fdocs[t].error
  /\ freplies = << ErrorReply(ValueOf(fdocs[LowestErrorSlot].error)) >>

(***************************************************************************)
(* Properties of the not-found and parse errors of the query commands      *)
(***************************************************************************)
AbsentOnEveryShard(name) == \A s \in Shards : ~HasValue(GetIndex(indices[s], name))
HeldOnSomeShard(name) == \E s \in Shards : HasValue(GetIndex(indices[s], name))
NoSuchIndex(name) == << ErrorReply(<< name, ": no such index" >>) >>

SearchReplied == fargs # << >> /\ fpc = "done"
QueryReplied(verb) == qverb = verb /\ qpc = "done"

OnlyAnError(replies) == Len(replies) = 1 /\ replies[1].type = "error"

\* C12: when the index named by FT.SEARCH, FT.AGGREGATE, FT.PROFILE,
\* FT.TAGVALS, FT.SYNDUMP or FT.SYNUPDATE is absent on every shard, the
\* command (its arguments having parsed) replies a not-found error and sends
\* no result: no count, no rows, no OK.
NotFoundShortCircuits ==
  /\ SearchReplied /\ dispatched = 1 /\ AbsentOnEveryShard(fargs[1])
       => freplies = NoSuchIndex(fargs[1])
  /\ \A verb \in { "FT.AGGREGATE", "FT.PROFILE", "FT.TAGVALS", "FT.SYNDUMP", "FT.SYNUPDATE" } :
       QueryReplied(verb) /\ dispatched = 1 /\ AbsentOnEveryShard(qargs[1])
         => OnlyAnError(qreplies)

\* the error, if any, that parsing the arguments of a command gives
SearchParseError(args) ==
  SendErrorIfOccurred(ParseSearchParams(Next(Next(CmdArgParser(args)).p).p))
AggregateParseError(args) == SendErrorIfOccurred(ParseAggregatorParams(CmdArgParser(args)))
ProfileParseError(args) ==
  LET p == Next(CmdArgParser(args)).p
      q == IF Check(p, "SEARCH").v THEN Check(p, "SEARCH").p ELSE Check(p, "AGGREGATE").p
  IN IF ~Check(p, "SEARCH").v /\ ~Check(p, "AGGREGATE").v
       THEN Some(<< "no 'SEARCH' or 'AGGREGATE' provided" >>)
       ELSE SendErrorIfOccurred(ParseSearchParams(Next(ProfileQueryParser(q)).p))
SynUpdateParseError(args) ==
  LET terms == CollectTerms(Check(NextPair(CmdArgParser(args)).p, "SKIPINITIALSCAN").p, << >>)
  IN IF terms.v = << >> THEN Some(<< "No terms specified" >>)
     ELSE IF ~Finalize(terms.p) THEN Some(MakeReply(terms.p.err)) ELSE Nullopt
CreateParseError(args) == SendErrorIfOccurred(ParseCreateParams(Next(CmdArgParser(args)).p))
\* FT.ALTER: the SCHEMA and ADD keywords, then the added field specs, which
\* are parsed for the document kind of the index
AlterTagsError(args) ==
  LET p == ExpectTag(ExpectTag(Next(CmdArgParser(args)).p, "SCHEMA"), "ADD")
  IN IF HasError(p) THEN Some(MakeReply(p.err)) ELSE Nullopt
AlterSpecsError(args, type) ==
  IF HasValue(AlterTagsError(args)) THEN Nullopt
  ELSE SendErrorIfOccurred(
         ParseSchema(ExpectTag(ExpectTag(Next(CmdArgParser(args)).p, "SCHEMA"), "ADD"),
                     [DefaultDocIndex EXCEPT !.type = type]))

\* a client's command has been replied to
ClientReplied(verb) == HasValue(last_reply) /\ ValueOf(last_reply).verb = verb
LastArgs == ValueOf(last_reply).args
LastReplies == ValueOf(last_reply).replies
\* the index a client's command named, as it was when the command started
IndexAtStart == tx_start[0][LastArgs[1]]
ErrorOnly(error) == << ErrorReply(ValueOf(error)) >>

\* FT.SEARCH, FT.AGGREGATE, FT.PROFILE, FT.SYNUPDATE and FT.CREATE: arguments
\* that fail to parse are answered with no closure dispatched
ParseErrorBeforeDispatch ==
  /\ SearchReplied /\ HasValue(SearchParseError(fargs))
       => dispatched = 0 /\ freplies = ErrorOnly(SearchParseError(fargs))
  /\ QueryReplied("FT.AGGREGATE") /\ HasValue(AggregateParseError(qargs))
       => dispatched = 0 /\ qreplies = ErrorOnly(AggregateParseError(qargs))
  /\ QueryReplied("FT.PROFILE") /\ HasValue(ProfileParseError(qargs))
       => dispatched = 0 /\ qreplies = ErrorOnly(ProfileParseError(qargs))
  /\ QueryReplied("FT.SYNUPDATE") /\ HasValue(SynUpdateParseError(qargs))
       => dispatched = 0 /\ qreplies = ErrorOnly(SynUpdateParseError(qargs))
  /\ ClientReplied("FT.CREATE") /\ HasValue(CreateParseError(LastArgs))
       => dispatched = 0 /\ OnlyAnError(LastReplies)

\* C13 (as the code has it): arguments of FT.CREATE, FT.SEARCH, FT.AGGREGATE,
\* FT.PROFILE and FT.SYNUPDATE that fail to parse, and a missing SCHEMA or ADD
\* keyword of FT.ALTER, are answered before any closure is dispatched; the
\* field specs FT.ALTER adds are parsed after its first Execute, so their
\* parse error is answered after that one read hop, with the index present,
\* and no shard's registry has changed.
ParseErrorsAndDispatch ==
  /\ ParseErrorBeforeDispatch
  /\ ClientReplied("FT.ALTER") /\ HasValue(AlterTagsError(LastArgs))
       => dispatched = 0 /\ LastReplies = ErrorOnly(AlterTagsError(LastArgs))
  /\ ClientReplied("FT.ALTER") /\ HasValue(IndexAtStart)
       /\ HasValue(AlterSpecsError(LastArgs, ValueOf(IndexAtStart).base_index.type))
       => /\ dispatched = 1
          /\ LastReplies =
               ErrorOnly(AlterSpecsError(LastArgs, ValueOf(IndexAtStart).base_index.type))
          /\ indices = tx_start

\* FT.ALTER has answered a parse error of its added field specs
ParseErrorsAndDispatchWitness ==
  /\ ClientReplied("FT.ALTER")
  /\ HasValue(IndexAtStart)
  /\ HasValue(AlterSpecsError(LastArgs, ValueOf(IndexAtStart).base_index.type))
  /\ dispatched = 1

\* C13 (as stated): for FT.CREATE, FT.ALTER, FT.SEARCH, FT.AGGREGATE,
\* FT.PROFILE and FT.SYNUPDATE, arguments that fail to parse are answered
\* before any closure has been dispatched to any shard.
ParseErrorsBeforeShardWork ==
  /\ ParseErrorBeforeDispatch
  /\ ClientReplied("FT.ALTER")
       /\ \/ HasValue(AlterTagsError(LastArgs))
          \/ \E type \in { "HASH", "JSON" } : HasValue(AlterSpecsError(LastArgs, type))
       => dispatched = 0

(***************************************************************************)
(* Properties of the schemas FT.CREATE installs and FT.ALTER extends       *)
(***************************************************************************)
\* what each FT.CREATE tail that parses asks for: the key type, the prefix
\* and, per field spec, identifier, alias, type and NOINDEX/SORTABLE flags
GivenSchema ==
  [t \in { << "ON", "HASH", "SCHEMA", "name", "TEXT" >>,
           << "on", "JSON", "PREFIX", "1", "doc:", "SCHEMA", "$.a", "AS", "a", "TEXT",
              "SORTABLE" >>,
           << "SCHEMA", "name", "AS", "a", "TEXT", "NOSTEM", "name", "AS", "b", "TAG",
              "NOINDEX" >> } |->
     IF t[1] = "ON"
       THEN [key_type |-> "HASH", prefix |-> "",
             specs |-> { << "name", "name", "TEXT", << >> >> }]
       ELSE IF t[1] = "on"
         THEN [key_type |-> "JSON", prefix |-> "doc:",
               specs |-> { << "$.a", "a", "TEXT", << "SORTABLE" >> >> }]
         ELSE [key_type |-> "HASH", prefix |-> "",
               specs |-> { << "name", "a", "TEXT", << >> >>,
                           << "name", "b", "TAG", << "NOINDEX" >> >> }]]

\* the attribute FT.INFO is to send for a field spec
GivenAttribute(spec) ==
  << "identifier", spec[1], "attribute", spec[2], "type", spec[3] >> \o spec[4]

ArgsTail(args) == SubSeq(args, 2, Len(args))

\* the last command sent args and was answered by the one reply of type
LastAnswered(verb, args, type) ==
  /\ HasValue(last_reply)
  /\ ValueOf(last_reply).verb = verb
  /\ ValueOf(last_reply).args = args
  /\ Len(ValueOf(last_reply).replies) = 1
  /\ ValueOf(last_reply).replies[1].type = type

\* every shard held, when the last command started, name as FT.CREATE args
\* installs it
StartedAsCreated(name, args) ==
  \A s \in Shards : tx_start[s][name] = Some([base_index |-> CreateParsed[args].val])

\* C14: an FT.CREATE that replied OK has installed on every shard what its
\* arguments parse to, and an FT.INFO of an index that is as an FT.CREATE
\* installed it replies the key type and prefix given to that FT.CREATE, one
\* attribute per field spec of it, with the identifier, alias, type and
\* flags of the spec, and num_docs 0
InfoReturnsCreatedSchema ==
  \A args \in SchemaCreateArgs :
    /\ LastAnswered("FT.CREATE", args, "ok")
         => \A s \in Shards : indices[s][args[1]] = Some([base_index |-> CreateParsed[args].val])
    /\ ( /\ CreateParsed[args].ok
         /\ LastAnswered("FT.INFO", << args[1] >>, "map")
         /\ StartedAsCreated(args[1], args) )
         => LET reply == ValueOf(last_reply).replies[1]
                given == GivenSchema[ArgsTail(args)]
            IN /\ reply.msg = << "index_name", args[1] >>
               /\ reply.key_type = given.key_type
               /\ reply.prefix = given.prefix
               /\ reply.attributes = { GivenAttribute(spec) : spec \in given.specs }
               /\ Cardinality(reply.attributes) = Cardinality(given.specs)
               /\ reply.num_docs = 0

\* the schemas of the definitions the shards hold
InstalledSchemas ==
  { ValueOf(indices[held[1]][held[2]]).base_index.schema :
      held \in { sn \in Shards \X IndexNames : HasValue(indices[sn[1]][sn[2]]) } }

\* C15: in every definition a shard holds, every alias of the alias map
\* points to an identifier of the field map, and the alias of every field
\* maps back to the identifier of that field, so no two fields share one
AliasMapSound ==
  \A schema \in InstalledSchemas :
    /\ \A field_alias \in DOMAIN schema.field_names :
         schema.field_names[field_alias] \in DOMAIN schema.fields
    /\ \A field \in DOMAIN schema.fields :
         /\ schema.fields[field].short_name \in DOMAIN schema.field_names
         /\ schema.field_names[schema.fields[field].short_name] = field

\* what each FT.ALTER tail that parses adds: identifier, alias and type of
\* its one field spec
AddedSpec ==
  [t \in { << "SCHEMA", "ADD", "n", "NUMERIC" >>,
           << "SCHEMA", "ADD", "name", "AS", "b", "TAG" >>,
           << "SCHEMA", "ADD", "other", "AS", "name", "TAG" >> } |->
     IF Len(t) = 4
       THEN [field |-> t[3], field_alias |-> t[3], type |-> t[4]]
       ELSE [field |-> t[3], field_alias |-> t[5], type |-> t[6]]]

\* new is old with the field spec added where its identifier and its alias
\* were not there already, and nothing else changed
AdditiveMerge(old, new, spec) ==
  /\ new.type = old.type /\ new.prefix = old.prefix /\ new.stopwords = old.stopwords
  /\ DOMAIN new.schema.fields = DOMAIN old.schema.fields \cup { spec.field }
  /\ DOMAIN new.schema.field_names = DOMAIN old.schema.field_names \cup { spec.field_alias }
  /\ \A field \in DOMAIN old.schema.fields :
       new.schema.fields[field] = old.schema.fields[field]
  /\ \A field_alias \in DOMAIN old.schema.field_names :
       new.schema.field_names[field_alias] = old.schema.field_names[field_alias]
  /\ spec.field \notin DOMAIN old.schema.fields
       => /\ new.schema.fields[spec.field].type = spec.type
          /\ new.schema.fields[spec.field].short_name = spec.field_alias
  /\ spec.field_alias \notin DOMAIN old.schema.field_names
       => new.schema.field_names[spec.field_alias] = spec.field

\* C16: when FT.ALTER has replied OK, every shard holds the definition it
\* held when the command started with the identifiers and aliases that
\* were there unchanged, the new ones added, and the same document kind,
\* prefix and stop words
AlterIsAdditive ==
  \A args \in SchemaAlterArgs :
    LastAnswered("FT.ALTER", args, "ok")
      => \A s \in Shards :
           /\ HasValue(tx_start[s][args[1]])
           /\ HasValue(indices[s][args[1]])
           /\ AdditiveMerge(ValueOf(tx_start[s][args[1]]).base_index,
                            ValueOf(indices[s][args[1]]).base_index,
                            AddedSpec[ArgsTail(args)])

\* FT.ALTER replied OK to a field spec whose identifier the index had, under
\* an alias it had not
AlterIsAdditiveWitness ==
  /\ LastAnswered("FT.ALTER", << "idx", "SCHEMA", "ADD", "name", "AS", "b", "TAG" >>, "ok")
  /\ "name" \in DOMAIN ValueOf(tx_start[0]["idx"]).base_index.schema.fields
  /\ "b" \notin DOMAIN ValueOf(tx_start[0]["idx"]).base_index.schema.field_names
  /\ ValueOf(indices[0]["idx"]).base_index.schema.field_names["b"] = "name"

\* the error the field specs of an FT.ALTER tail draw on an index of the
\* document kind type, if any: a repeated alias, and on JSON an identifier
\* that is no json path
AddedSpecsError(tail, type) ==
  IF type = "JSON" THEN Some(<< "Bad json path: ", tail[3] >>)
  ELSE IF tail = << "SCHEMA", "ADD", "n", "TEXT", "n", "TAG" >>
    THEN Some(<< "Duplicate field in schema - ", "n" >>)
    ELSE Nullopt

\* the FT.ALTER tails with both keywords
KeywordedAlterArgs == { args \in SchemaAlterArgs : args[2] = "SCHEMA" /\ args[3] = "ADD" }

\* C17: FT.ALTER of a name no shard holds replies "Index not found", and
\* FT.ALTER whose added field specs do not parse replies the parse error; both
\* conclude the transaction once, with the registry of every shard as it
\* was, and the update closure runs on a shard only when the index was
\* there and the specs parsed
AlterErrorsLeaveRegistry ==
  \A args \in KeywordedAlterArgs :
    LET name == args[1]
        error == AddedSpecsError(ArgsTail(args), ValueOf(tx_start[0][name]).base_index.type)
    IN /\ ClientReplied("FT.ALTER") /\ LastArgs = args /\ HeldAtStart(name) = { }
            => /\ LastReplies = << ErrorReply(<< "Index not found" >>) >>
               /\ ValueOf(last_reply).tx_ends = 1
               /\ indices = tx_start
       /\ ClientReplied("FT.ALTER") /\ LastArgs = args /\ HeldAtStart(name) = Shards
            /\ HasValue(error)
            => /\ LastReplies = << ErrorReply(ValueOf(error)) >>
               /\ ValueOf(last_reply).tx_ends = 1
               /\ indices = tx_start
       /\ \A c \in Clients :
            pc[c] = "alter_update" /\ cmd[c].args = args
              => HeldAtStart(name) = Shards /\ ~HasValue(error)

\* FT.ALTER of an index the shards hold replied the error of a repeated alias
AlterErrorsLeaveRegistryWitness ==
  /\ LastAnswered("FT.ALTER", << "idx", "SCHEMA", "ADD", "n", "TEXT", "n", "TAG" >>, "error")
  /\ HeldAtStart("idx") = Shards
  /\ ValueOf(tx_start[0]["idx"]).base_index.type = "HASH"

\* on every shard, every index but name is as it was when the running or
\* last command started
OthersAsAtStart(name) ==
  \A s \in Shards, other \in IndexNames \ { name } : indices[s][other] = tx_start[s][other]

\* C18: FT.DROPINDEX of an index the shards hold replies OK and leaves the
\* name absent on every shard; FT.DROPINDEX of a name no shard holds, as
\* after that first one, replies "-Unknown Index name" and leaves every
\* registry as it was; no FT.DROPINDEX ever touches another index
DropIndexOnceThenUnknown ==
  \A name \in IndexNames :
    /\ ClientReplied("FT.DROPINDEX") /\ LastArgs = << name >> /\ HeldAtStart(name) = Shards
         => /\ LastReplies = << OkReply >>
            /\ HoldersOf(name) = { }
    /\ ClientReplied("FT.DROPINDEX") /\ LastArgs = << name >> /\ HeldAtStart(name) = { }
         => /\ LastReplies = << ErrorReply(<< "-Unknown Index name" >>) >>
            /\ indices = tx_start
    /\ LastIs("FT.DROPINDEX", OkReply) /\ LastArgs = << name >>
         => HeldAtStart(name) = Shards /\ HoldersOf(name) = { }
    /\ ( \/ ClientReplied("FT.DROPINDEX") /\ LastArgs = << name >>
         \/ \E c \in Clients : pc[c] = "drop" /\ cmd[c].args = << name >> )
         => OthersAsAtStart(name)

\* FT.DROPINDEX replied OK for one index while the shards hold another
DropIndexOnceThenUnknownWitness ==
  /\ LastIs("FT.DROPINDEX", OkReply)
  /\ LastArgs = << "idx" >>
  /\ HeldAtStart("idx") = Shards /\ HoldersOf("idx") = { }
  /\ HoldersOf("idx2") = Shards

(***************************************************************************)
(* Properties of FT.SYNUPDATE and FT.SYNDUMP                               *)
(***************************************************************************)
\* the terms FT.SYNUPDATE args gives, after the optional SKIPINITIALSCAN
GivenTerms(args) ==
  IF args[3] = "SKIPINITIALSCAN" THEN SubSeq(args, 4, Len(args)) ELSE SubSeq(args, 3, Len(args))

\* the entries of an FT.SYNDUMP reply from position i on: a term, and the
\* group ids of the array that follows it
RECURSIVE DumpEntries(_, _)
DumpEntries(replies, i) ==
  IF i > Len(replies) THEN << >>
  ELSE << [term |-> replies[i].v,
           ids |-> [j \in 1 .. replies[i + 1].len |-> replies[i + 1 + j].v]] >>
         \o DumpEntries(replies, i + 2 + replies[i + 1].len)

\* FT.SYNDUMP has replied an array
DumpReplied == QueryReplied("FT.SYNDUMP") /\ qreplies[1].type = "array"

\* C19: when FT.SYNUPDATE idx g t1..tn has replied OK, the index is on every
\* shard and every shard holds group g with exactly these terms; and an
\* FT.SYNDUMP reply has, for every group last updated with OK and each of
\* its terms, an entry of that term whose ids include the group
SynUpdateThenDump ==
  /\ QueryReplied("FT.SYNUPDATE") /\ qreplies = << OkReply >>
       => /\ HoldersOf(qargs[1]) = Shards
          /\ \A s \in Shards :
               /\ qargs[2] \in DOMAIN synonyms[s][qargs[1]]
               /\ synonyms[s][qargs[1]][qargs[2]] = SeqElements(GivenTerms(qargs))
          /\ syn_ok[qargs[1]][qargs[2]] = GivenTerms(qargs)
  /\ DumpReplied
       => \A g \in DOMAIN syn_ok[qargs[1]] :
            \A t \in SeqElements(syn_ok[qargs[1]][g]) :
              \E i \in 1 .. Len(DumpEntries(qreplies, 2)) :
                /\ DumpEntries(qreplies, 2)[i].term = t
                /\ g \in SeqElements(DumpEntries(qreplies, 2)[i].ids)

\* FT.SYNDUMP replied after group 10 was given x and y and group 2 was given y
SynUpdateThenDumpWitness ==
  /\ DumpReplied
  /\ qargs = << "idx" >>
  /\ DOMAIN syn_ok["idx"] = { "2", "10" }
  /\ syn_ok["idx"]["10"] = << "x", "y" >>
  /\ syn_ok["idx"]["2"] = << "y" >>
  /\ Len(DumpEntries(qreplies, 2)) = 2

\* the terms of index name on some shard, and the groups holding term there
TermsOnShards(name) ==
  { term \in Terms : \E s \in Shards, g \in GroupIds :
      g \in DOMAIN synonyms[s][name] /\ term \in synonyms[s][name][g] }
GroupsOfTerm(name, term) ==
  { g \in GroupIds : \E s \in Shards :
      g \in DOMAIN synonyms[s][name] /\ term \in synonyms[s][name][g] }

\* std::string comparison of the group ids: "10" < "2"
IdBefore(a, b) == a = "10" /\ b = "2"

\* C20: an FT.SYNDUMP reply declares twice as many elements as there are
\* terms in the groups of the shards, has one entry per such term and no
\* other, and the ids of an entry are the groups that hold the term on some
\* shard, each once, in ascending string order
SynDumpSortedUnion ==
  DumpReplied
    => LET entries == DumpEntries(qreplies, 2)
           name == qargs[1]
       IN /\ qreplies[1].len = 2 * Cardinality(TermsOnShards(name))
          /\ Len(entries) = Cardinality(TermsOnShards(name))
          /\ { entries[i].term : i \in 1 .. Len(entries) } = TermsOnShards(name)
          /\ \A i \in 1 .. Len(entries) :
               /\ SeqElements(entries[i].ids) = GroupsOfTerm(name, entries[i].term)
               /\ \A j, k \in 1 .. Len(entries[i].ids) :
                    j < k => IdBefore(entries[i].ids[j], entries[i].ids[k])

\* FT.SYNDUMP replied a term that two groups hold
SynDumpSortedUnionWitness ==
  /\ DumpReplied
  /\ \E i \in 1 .. Len(DumpEntries(qreplies, 2)) :
       DumpEntries(qreplies, 2)[i] = [term |-> "y", ids |-> << "10", "2" >>]
  /\ Len(DumpEntries(qreplies, 2)) = 2

(***************************************************************************)
(* Properties of the clause parsers                                        *)
(***************************************************************************)
\* the parser named has returned
Returned(parser) == sparser = parser /\ HasValue(sresult)

\* what a caller sees of a ParseResult: the plan or the error, and the error
\* of the argument parser
Outcome(result) ==
  [ok |-> result.ok, val |-> result.val, error |-> result.error, err |-> result.p.err]

\* args without its i-th token
Without(args, i) == SubSeq(args, 1, i - 1) \o SubSeq(args, i + 1, Len(args))

\* position i of FT.SEARCH arguments is where a clause starts: the first,
\* the one after NOCONTENT, after LIMIT and its two numbers, or after a
\* token that is no clause
RECURSIVE SearchClauseAt(_, _)
SearchClauseAt(args, i) ==
  \/ i = 1
  \/ i > 1 /\ args[i - 1] # "LIMIT" /\ SearchClauseAt(args, i - 1)
  \/ i > 3 /\ args[i - 3] = "LIMIT" /\ args[i - 2] \in { "0", "1" } /\ args[i - 1] \in { "0", "1" }
       /\ SearchClauseAt(args, i - 3)

\* position i of FT.CREATE arguments is where an option starts: the first,
\* the one after ON and its document kind, or after a token that is no option
RECURSIVE CreateClauseAt(_, _)
CreateClauseAt(args, i) ==
  \/ i = 1
  \/ i > 1 /\ args[i - 1] \in { "MAXTEXTFIELDS", "x", "name", "TEXT", "HASH" }
       /\ CreateClauseAt(args, i - 1)
  \/ i > 2 /\ args[i - 2] = "ON" /\ args[i - 1] = "HASH" /\ CreateClauseAt(args, i - 2)

\* position i of FT.AGGREGATE arguments is where a clause starts: the one
\* after index and query, or after LIMIT and its two numbers
RECURSIVE AggregateClauseAt(_, _)
AggregateClauseAt(args, i) ==
  \/ i = 3
  \/ i > 5 /\ args[i - 3] = "LIMIT" /\ args[i - 2] \in { "0", "1" } /\ args[i - 1] \in { "0", "1" }
       /\ AggregateClauseAt(args, i - 3)

\* C21: ParseSearchParams and ParseCreateParams return for arguments with a
\* token that is no clause, where a clause starts, what they return for the
\* arguments without that token; ParseAggregatorParams returns for them the
\* error "Unknown clause: <token>" and no plan
UnknownClauseSkippedOrRejected ==
  /\ Returned("ParseSearchParams")
       => \A i \in 1 .. Len(sargs) :
            SearchClauseAt(sargs, i) /\ sargs[i] \in { "WITHSCORES", "x", "0", "1" }
              => Outcome(ValueOf(sresult))
                   = Outcome(ParseSearchParams(CmdArgParser(Without(sargs, i))))
  /\ Returned("ParseCreateParams")
       => \A i \in 1 .. Len(sargs) :
            CreateClauseAt(sargs, i) /\ sargs[i] \in { "MAXTEXTFIELDS", "x", "name", "TEXT", "HASH" }
              => Outcome(ValueOf(sresult))
                   = Outcome(ParseCreateParams(CmdArgParser(Without(sargs, i))))
  /\ Returned("ParseAggregatorParams")
       => \A i \in 3 .. Len(sargs) :
            AggregateClauseAt(sargs, i) /\ sargs[i] \in { "FILTER", "x", "0", "1" }
              => /\ ~ValueOf(sresult).ok
                 /\ ValueOf(sresult).error = << "Unknown clause: ", sargs[i] >>

\* ParseSearchParams has skipped a token and gone on to the LIMIT clause
UnknownClauseSkippedOrRejectedWitness ==
  /\ Returned("ParseSearchParams")
  /\ sargs = << "WITHSCORES", "LIMIT", "0", "1" >>
  /\ ValueOf(sresult).ok
  /\ ValueOf(sresult).val.limit_total = 1

\* the position after n field entries that start at position i of args, an
\* entry being a field and an optional AS with its alias; 0 when the
\* arguments end before
RECURSIVE EntriesEnd(_, _, _)
EntriesEnd(args, i, n) ==
  IF n = 0 THEN i
  ELSE IF i > Len(args) THEN 0
  ELSE IF i + 2 <= Len(args) /\ args[i + 1] = "AS" THEN EntriesEnd(args, i + 3, n - 1)
  ELSE EntriesEnd(args, i + 1, n - 1)

\* the count of a RETURN clause
ReturnCount(token) == IF token = "1" THEN 1 ELSE IF token = "2" THEN 2 ELSE 0

\* args = NOCONTENT, RETURN, a count and as many field entries, and the
\* clauses after them, if any
NoContentThenReturn(args) ==
  /\ Len(args) >= 3
  /\ args[1] = "NOCONTENT" /\ args[2] \in { "RETURN", "return" } /\ args[3] \in { "1", "2" }
  /\ EntriesEnd(args, 4, ReturnCount(args[3])) > 0

\* C22: ParseSearchParams returns for NOCONTENT followed by a RETURN clause
\* what it returns for the same arguments without the RETURN clause, and the
\* plan is ids-only
ReturnAfterNoContentIgnored ==
  Returned("ParseSearchParams") /\ NoContentThenReturn(sargs)
    => /\ Outcome(ValueOf(sresult))
            = Outcome(ParseSearchParams(CmdArgParser(
                << "NOCONTENT" >>
                  \o SubSeq(sargs, EntriesEnd(sargs, 4, ReturnCount(sargs[3])), Len(sargs)))))
       /\ ValueOf(sresult).ok
       /\ IdsOnly(ValueOf(sresult).val)

\* the count a SORTBY token stands for
SortByCount(token) == IF token = "1" THEN 1 ELSE IF token = "2" THEN 2 ELSE IF token = "3" THEN 3 ELSE 0

\* tokens from position i on are fields that begin with '@', each followed
\* or not by ASC or DESC
RECURSIVE FieldsAndOrders(_, _)
FieldsAndOrders(tokens, i) ==
  \/ i > Len(tokens)
  \/ /\ tokens[i] \in { "@a", "@b" }
     /\ IF i < Len(tokens) /\ tokens[i + 1] \in { "ASC", "DESC" }
          THEN FieldsAndOrders(tokens, i + 2)
          ELSE FieldsAndOrders(tokens, i + 1)

\* the sort fields such tokens give
RECURSIVE SortFieldsOf(_, _)
SortFieldsOf(tokens, i) ==
  IF i > Len(tokens) THEN << >>
  ELSE LET name == IF tokens[i] = "@a" THEN "a" ELSE "b"
       IN IF i < Len(tokens) /\ tokens[i + 1] \in { "ASC", "DESC" }
            THEN << << name, tokens[i + 1] >> >> \o SortFieldsOf(tokens, i + 2)
            ELSE << << name, "ASC" >> >> \o SortFieldsOf(tokens, i + 1)

\* ParseAggregatorSortParams returned sort params and the parser no error
SortByParsed ==
  /\ Returned("ParseAggregatorSortParams")
  /\ ValueOf(sresult).ok
  /\ ValueOf(sresult).p.err = NoError

\* C23: when ParseAggregatorSortParams succeeds for count n, the n tokens
\* after the count are there, they are fields that begin with '@', each
\* followed or not by ASC or DESC, they are the sort fields returned, and
\* the parser stands right after them, or after the MAX and its number that
\* follow them; when there are fewer than n tokens after the count the
\* result is an error
SortByConsumesCount ==
  /\ SortByParsed
       => LET n == SortByCount(sargs[1])
              after == ValueOf(sresult).p.cur
          IN /\ Len(sargs) >= n + 1
             /\ FieldsAndOrders(SubSeq(sargs, 2, n + 1), 1)
             /\ ValueOf(sresult).val.fields = SortFieldsOf(SubSeq(sargs, 2, n + 1), 1)
             /\ IF Len(sargs) > n + 1 /\ sargs[n + 2] = "MAX"
                  THEN after = n + 3
                  ELSE after = n + 1
  /\ ( /\ Returned("ParseAggregatorSortParams")
       /\ Len(sargs) >= 1
       /\ sargs[1] \in { "0", "1", "2", "3" }
       /\ Len(sargs) - 1 < SortByCount(sargs[1]) )
       => ~ValueOf(sresult).ok

\* SORTBY 3 @a DESC @b was parsed: two fields from three strings
SortByConsumesCountWitness ==
  /\ SortByParsed
  /\ sargs = << "3", "@a", "DESC", "@b" >>
  /\ ValueOf(sresult).val.fields = << << "a", "DESC" >>, << "b", "ASC" >> >>

\* the reducers of a plan
ReducersOf(params) ==
  UNION { SeqElements(params.steps[i].reducers) :
            i \in { j \in 1 .. Len(params.steps) : params.steps[j].kind = "GROUP" } }

\* C24: in every plan ParseAggregatorParams returns, a reducer whose
\* function is COUNT has an empty source_field and every other reducer a
\* non-empty one, whatever nargs the REDUCE clause gave
ReducerSourceMatchesFunction ==
  ( /\ Returned("ParseAggregatorParams")
    /\ ValueOf(sresult).ok
    /\ ValueOf(sresult).p.err = NoError )
    => \A reducer \in ReducersOf(ValueOf(sresult).val) :
         (reducer.func = "COUNT") <=> (reducer.source_field = "")

\* the count a token of VECTOR stands for
VectorCount(token) ==
  IF token = "1" THEN 1 ELSE IF token = "2" THEN 2 ELSE IF token = "3" THEN 3
  ELSE IF token = "4" THEN 4 ELSE 0

\* C25: when ParseVector accepts a field with count nargs, the parser stands
\* exactly nargs tokens after the count, for even and odd nargs, and the
\* dimension is positive
VectorConsumesCount ==
  Returned("ParseVector") /\ ValueOf(sresult).ok
    => /\ ValueOf(sresult).p.cur = 2 + VectorCount(sargs[2])
       /\ ValueOf(sresult).val.params.dim > 0

\* the count a token of PARAMS stands for
QueryParamsCount(token) == IF token = "2" THEN 2 ELSE IF token = "4" THEN 4 ELSE 0

\* C26: when PARAMS n is followed by at least n tokens, ParseSearchParams
\* takes exactly these n as names and values, also when a name repeats:
\* what it returns is, the query params aside, what it returns for the
\* arguments after them, and the names of the query params are those given
ParamsConsumesCount ==
  ( /\ Returned("ParseSearchParams")
    /\ Len(sargs) >= 2 /\ sargs[1] = "PARAMS"
    /\ Len(sargs) >= 2 + QueryParamsCount(sargs[2]) )
    => LET n == QueryParamsCount(sargs[2])
           rest == ParseSearchParams(CmdArgParser(SubSeq(sargs, 3 + n, Len(sargs))))
           result == ValueOf(sresult)
       IN /\ result.ok = rest.ok
          /\ result.p.err = rest.p.err
          /\ result.error = rest.error
          /\ result.ok
               => /\ [result.val EXCEPT !.query_params = << >>] = rest.val
                  /\ { result.val.query_params[i][1] : i \in 1 .. Len(result.val.query_params) }
                       = { sargs[2 + j] : j \in { x \in 1 .. n : x % 2 = 1 } }

(***************************************************************************)
(* Properties of the shard closures of a hop                               *)
(***************************************************************************)
\* the names of the indices a shard holds
HoldersNames == { n \in IndexNames : \E s \in Shards : HasValue(indices[s][n]) }

\* C27: in FT._LIST, whatever the order of the closures, names is assigned
\* by one closure only, never by two at a time, and once all closures have
\* run it has been assigned exactly once; the reply is the index names of
\* one shard, which are the names of the indices that exist
ListAssignsOnce ==
  /\ \A c \in Clients :
       pc[c] = "list"
         => /\ frame[c].names_writes + Cardinality(frame[c].assigning) <= 1
            /\ pending[c] = { } => frame[c].names_writes = 1
  /\ HasValue(last_reply) /\ ValueOf(last_reply).verb = "FT._LIST"
       => /\ \A s \in Shards : GetIndexNames(indices[s]) = HoldersNames
          /\ ValueOf(last_reply).replies = << SendBulkStrArr(HoldersNames) >>
ListAssignsOnceWitness ==
  /\ HasValue(last_reply) /\ ValueOf(last_reply).verb = "FT._LIST"
  /\ ValueOf(last_reply).replies = << SendBulkStrArr({ "idx" }) >>

\* the step is the closure of shard s in the hop client c is at
ClientShardStep(c, s) ==
  /\ s \in pending[c]
  /\ pc'[c] = pc[c]
  /\ pending'[c] = pending[c] \ { s }
\* the closure of shard s in the hop of FT.SEARCH
SearchShardStep(s) ==
  /\ s \in fpending
  /\ fpc' = fpc
  /\ fpending' = fpending \ { s }
\* the closure of shard s in the hop of FT.PROFILE .. FT.SYNUPDATE
QueryShardStep(s) ==
  /\ s \in qpending
  /\ qpc' = qpc
  /\ qpending' = qpending \ { s }

\* what a closure of shard s may write of the handler's locals that are not
\* atomic: its own slot of a vector, and index_info when it is shard 0
WritesOwnSlot(c, s) ==
  /\ \A t \in Shards \ { s } : frame'[c].infos[t] = frame[c].infos[t]
  /\ frame'[c].index_info # frame[c].index_info => s = 0
  /\ frame'[c].parser = frame[c].parser
  /\ frame'[c].parsed_index = frame[c].parsed_index

\* C28: while a hop is not over, the locals of the handler change only by
\* the closure of a shard that has not run yet; that closure changes, of the
\* locals that are not atomic, only the slot of its shard (index_info only on
\* shard 0), so no location is written by two closures; and the handler
\* goes on, reading them, only when every closure of the hop has run
ClosuresWriteOwnSlot ==
  [][ /\ \A c \in Clients :
           pc[c] # "idle" /\ pending[c] # { }
             => \/ UNCHANGED << pc[c], pending[c], frame[c] >>
                \/ \E s \in pending[c] : ClientShardStep(c, s) /\ WritesOwnSlot(c, s)
      /\ fpc = "hop" /\ fpending # { }
           => \/ UNCHANGED << fpc, fpending, fdocs, index_not_found, freplies >>
              \/ \E s \in fpending :
                   /\ SearchShardStep(s)
                   /\ \A t \in Shards \ { s } : fdocs'[t] = fdocs[t]
                   /\ UNCHANGED << fparams, fknn, freplies >>
      /\ qpc = "hop" /\ qpending # { }
           => \/ UNCHANGED << qpc, qpending, qslots, qnotfound, qreplies >>
              \/ \E s \in qpending :
                   /\ QueryShardStep(s)
                   /\ \A t \in Shards \ { s } : qslots'[t] = qslots[t]
                   /\ UNCHANGED << qlocals, qreplies >>
    ]_vars
\* the two hops of FT.ALTER are over, index_info having been fetched on shard 0
ClosuresWriteOwnSlotWitness ==
  \E c \in Clients :
    /\ pc[c] = "alter_update" /\ pending[c] = { }
    /\ HasValue(frame[c].index_info)

(***************************************************************************)
(* Properties of the merged replies                                        *)
(***************************************************************************)
\* a command of a client has replied after its hops; name is its index
RepliedAfterHop(verb) ==
  /\ HasValue(last_reply)
  /\ ValueOf(last_reply).verb = verb
  /\ ValueOf(last_reply).tx_ends > 0
RepliedName == ValueOf(last_reply).args[1]

\* what FT.SEARCH replies for what the shards hold and return, shard by shard
SearchRepliesOf(holders, results) ==
  IF holders # Shards
    THEN { << ErrorReply(<< fargs[1], ": no such index" >>) >> }
    ELSE IF \E s \in Shards : HasValue(results[s].error)
      THEN { << ErrorReply(ValueOf(results[CHOOSE s \in Shards :
                                     /\ HasValue(results[s].error)
                                     /\ \A t \in Shards :
                                          HasValue(results[t].error) => s <= t].error)) >> }
      ELSE { o.sent : o \in SearchReply(ValueOf(fparams), fknn, results) }

\* the values of FT.TAGVALS from the slots, whichever shard filled which
TagValsOf(shard_results) ==
  UNION { SeqElements(shard_results[s].vec) : s \in Shards }

\* C29: the reply of a command is fixed by what each shard holds and returns,
\* whatever the order its closures ran in: FT.CREATE and FT.DROPINDEX by
\* whether the index was held when the transaction was scheduled, FT.INFO by
\* the definitions held, FT.SEARCH by the results of the shards taken in shard
\* order, FT.TAGVALS, as a set, by the values of all shards, and FT.SYNDUMP,
\* as a map, by the groups of all shards
ReplyFixedByShardResults ==
  /\ RepliedAfterHop("FT.CREATE")
       => ValueOf(last_reply).replies =
            IF HeldAtStart(RepliedName) # { }
              THEN << ErrorReply(<< "Index already exists" >>) >>
              ELSE << OkReply >>
  /\ RepliedAfterHop("FT.DROPINDEX")
       => ValueOf(last_reply).replies =
            IF HeldAtStart(RepliedName) # { }
              THEN << OkReply >>
              ELSE << ErrorReply(<< "-Unknown Index name" >>) >>
  /\ RepliedAfterHop("FT.INFO")
       => ValueOf(last_reply).replies =
            IF HeldAtStart(RepliedName) # Shards
              THEN << ErrorReply(<< "Unknown Index name" >>) >>
              ELSE << InfoReply(RepliedName, GetInfo(ValueOf(tx_start[0][RepliedName])),
                                TotalNumDocs([s \in Shards |->
                                                Some(GetInfo(ValueOf(tx_start[s][RepliedName])))],
                                             0)) >>
  /\ fpc = "done" /\ HasValue(fparams)
       => freplies \in SearchRepliesOf(HoldersOf(fargs[1]), found)
  /\ QueryReplied("FT.TAGVALS") /\ qreplies[1].type = "set"
       => /\ \A s \in Shards : qslots[s].ok
          /\ qreplies[1].v = TagValsOf(qslots)
  /\ QueryReplied("FT.TAGVALS") /\ qreplies[1].type # "set"
       => \E s \in Shards :
            /\ ~qslots[s].ok /\ \A t \in 0 .. (s - 1) : qslots[t].ok
            /\ qreplies[1].type = "error" /\ qreplies[1].msg = qslots[s].error
  /\ DumpReplied
       => { << DumpEntries(qreplies, 2)[i].term, SeqElements(DumpEntries(qreplies, 2)[i].ids) >> :
              i \in 1 .. Len(DumpEntries(qreplies, 2)) }
            = { << t, GroupsOfTerm(qargs[1], t) >> : t \in TermsOnShards(qargs[1]) }
\* FT.SEARCH has sent the documents of two shards
ReplyFixedByShardResultsWitness ==
  /\ fpc = "done" /\ HasValue(fparams)
  /\ \A s \in Shards : found[s] = SearchResult(1, << SerializedSearchDoc(<< s, 1 >>, s, 0) >>)
  /\ Len(freplies) > 2
  /\ ~index_not_found

(***************************************************************************)
(* Properties of the profile tree                                          *)
(***************************************************************************)
\* the parent of event j of a pre-order list: the last event before it that
\* is one level higher
ParentOf(events, j) ==
  CHOOSE i \in 1 .. (j - 1) :
    /\ events[i].depth = events[j].depth - 1
    /\ \A k \in (i + 1) .. (j - 1) : events[k].depth # events[j].depth - 1
DirectChildren(events, i) ==
  { j \in (i + 1) .. Len(events) : events[j].depth > 0 /\ ParentOf(events, j) = i }

\* the values sent after each key, in the order sent
RECURSIVE SentAfter(_, _, _)
SentAfter(replies, key, k) ==
  IF k >= Len(replies) THEN << >>
  ELSE (IF replies[k].type = "simple" /\ replies[k].v = key THEN << replies[k + 1] >> ELSE << >>)
         \o SentAfter(replies, key, k + 1)

\* the position after the value that starts at position k of replies: a map
\* of len keys with their values, an array of len values, or a scalar; a
\* value that is cut short ends beyond the replies
RECURSIVE ValueEnd(_, _)
RECURSIVE ItemsEnd(_, _, _, _)
ValueEnd(replies, k) ==
  IF k > Len(replies) THEN Len(replies) + 2
  ELSE IF replies[k].type = "map_start" THEN ItemsEnd(replies, k + 1, replies[k].len, TRUE)
  ELSE IF replies[k].type = "array" THEN ItemsEnd(replies, k + 1, replies[k].len, FALSE)
  ELSE k + 1
ItemsEnd(replies, k, n, keyed) ==
  IF n = 0 THEN k
  ELSE IF k > Len(replies) THEN Len(replies) + 2
  ELSE ItemsEnd(replies, ValueEnd(replies, IF keyed THEN k + 1 ELSE k), n - 1, keyed)

\* the events with a child, in order
WithChildren(events) ==
  SelectSeq([i \in 1 .. Len(events) |-> i], LAMBDA i : DirectChildren(events, i) # { })

\* what the tree of a list of events must look like: a map per event, five
\* keys long when it has children, the self time and the number of children
\* of each event, and all of it one value
TreeOf(events, replies) ==
  /\ SentAfter(replies, "self_time", 1)
       = [i \in 1 .. Len(events) |->
            SendLong(events[i].micros - SumMicros(events, DirectChildren(events, i)))]
  /\ SentAfter(replies, "children", 1)
       = [k \in 1 .. Len(WithChildren(events)) |->
            StartArray(Cardinality(DirectChildren(events, WithChildren(events)[k])))]
  /\ SelectSeq(replies, LAMBDA r : r.type = "map_start")
       = [i \in 1 .. Len(events) |->
            StartMap(IF DirectChildren(events, i) # { } THEN 5 ELSE 4)]
  /\ ValueEnd(replies, 1) = Len(replies) + 1

\* C30 as stated: of every pre-order list of events, PROFILE sends one
\* well-formed tree with the direct children and the self time of each event
EveryPreOrderListIsOneTree ==
  Returned("ProfileTree") => TreeOf(sargs, ValueOf(sresult))

\* C30: of every pre-order list of events with a single event at depth 0,
\* the number of children PROFILE sends for an event is the number of its
\* direct children, self_time is its micros less those of its direct
\* children, and the maps and children arrays sent are one well-formed value
SingleRootListIsOneTree ==
  Returned("ProfileTree") /\ (\A k \in 2 .. Len(sargs) : sargs[k].depth > 0)
    => TreeOf(sargs, ValueOf(sresult))
\* a root with two children, the first with a child of its own
SingleRootListIsOneTreeWitness ==
  /\ Returned("ProfileTree")
  /\ [k \in 1 .. Len(sargs) |-> sargs[k].depth] = << 0, 1, 2, 1 >>
  /\ SentAfter(ValueOf(sresult), "children", 1) = << StartArray(2), StartArray(1) >>

(***************************************************************************)
(* Properties of the transaction of FT.CREATE and FT.ALTER                 *)
(***************************************************************************)
\* the handler of client c returns in this step from a hop of verb
ReturnsFromHop(c, verb) ==
  /\ cmd[c].verb = verb
  /\ pc[c] # "idle"
  /\ pc'[c] = "idle"

\* C31: an FT.CREATE or FT.ALTER whose first Execute has run holds the
\* transaction until it returns; it returns only when every shard has run
\* the hop it is at, having ended the transaction exactly once, by Conclude
\* or by the final Execute, and having sent one reply, OK or an error
EndsTransactionOnce ==
  [][ \A c \in Clients : \A verb \in { "FT.CREATE", "FT.ALTER" } :
        /\ cmd[c].verb = verb /\ pc[c] # "idle" => tx_owner = c
        /\ ReturnsFromHop(c, verb)
             => /\ pending[c] = { }
                /\ tx_owner' = 0
                /\ HasValue(last_reply')
                /\ ValueOf(last_reply').verb = verb
                /\ ValueOf(last_reply').tx_ends = 1
                /\ Len(ValueOf(last_reply').replies) = 1
                /\ ValueOf(last_reply').replies[1].type \in { "ok", "error" }
    ]_vars
\* FT.ALTER has returned OK after its final Execute and no transaction is open
EndsTransactionOnceWitness ==
  /\ HasValue(last_reply)
  /\ ValueOf(last_reply).verb = "FT.ALTER"
  /\ ValueOf(last_reply).replies = << OkReply >>
  /\ ValueOf(last_reply).tx_ends = 1
  /\ tx_owner = 0

(***************************************************************************)
(* Properties of the loops of the parsers                                  *)
(***************************************************************************)
\* C32: a parser returns on every argument vector, and its loop makes no
\* more iterations than there are arguments, whatever count is given to it:
\* the nargs of VECTOR, the n of STOPWORDS, of LOAD and RETURN, of PARAMS
IterationsBoundedByArguments ==
  HasValue(sresult)
    /\ sparser \in { "ParseVectorParams", "ParseStopwords", "ParseLoadOrReturnFields",
                     "ParseQueryParams" }
    => ValueOf(sresult).iterations <= Len(sargs)

=============================================================================
